---- MODULE Spec2Model ----
(***************************************************************************)
(* Model of the video data acquisition and caching engine of the plugin:   *)
(* YouTubeService (src/src/services/youtube.ts): the request queue         *)
(* (queueRequest / processQueue / fetchWithTimeout), the facade            *)
(* (fetchTranscript / fetchVideoMetadata / extractCaptions) and the        *)
(* process-wide cache table with its debounced persistence.                *)
(*                                                                         *)
(* The runtime is a single-threaded event loop: one action is one          *)
(* macrotask (a call from outside, a timer firing, a network completion)   *)
(* together with all the promise continuations it triggers.                *)
(*                                                                         *)
(* Texts that the code takes apart or puts together (video ids, language   *)
(* codes, cache keys) are sequences of characters.                         *)
(***************************************************************************)
EXTENDS Integers, Sequences, FiniteSets, TLC

\* ------------------------------------------------------------------ bounds
\* Number of facade calls (fetchTranscript / fetchVideoMetadata) in a run.
MaxCalls == 3
\* Number of times the clock advances in a run.
MaxTicks == 1
\* Number of calls of a service in a run that starts from full tables.
MaxBulkCalls == 2
\* Number of times the clock advances in a run that follows an entry through
\* its expiry window.
MaxExpiryTicks == 3
\* Number of keys in the tables a load is tried on.
MaxLoadKeys == 3
\* Longest caption-track list of a watch page.
MaxTracks == 3
\* Largest number of cues in a captions document.
MaxCues == 2

\* ------------------------------------------------------- program constants
CACHE_EXPIRY_MS == 1800000
MAX_CONCURRENT_REQUESTS == 2
MAX_CACHE_ENTRIES == 100
DEFAULT_TIMEOUT_MS == 10000
CAPTION_TIMEOUT_MS == 5000
SAVE_DEBOUNCE_MS == 5000
\* saveTimeout = null
NoTimer == 0

\* ------------------------------------------------------------------- texts
IsPrefixAt(needle, hay, i) ==
    \A k \in 1..Len(needle) : i + k - 1 <= Len(hay) /\ hay[i + k - 1] = needle[k]

\* String.prototype.includes
Includes(hay, needle) ==
    \E i \in 1..(Len(hay) + 1) : IsPrefixAt(needle, hay, i)

\* ------------------------------------------------------------------ inputs
UrlWatchA == "https://www.youtube.com/watch?v=a1"
UrlOther == "https://example.com/clip"
Urls == {UrlWatchA, UrlOther}
\* A second video, which only the plugin's commands ask for.
UrlWatchB == "https://www.youtube.com/watch?v=b2"

LangEn == <<"e", "n">>
LangCodes == {LangEn}

\* VIDEO_ID_REGEX.exec(url): the first capture group, or the empty text when
\* the pattern does not match.
VIDEO_ID_REGEX(url) ==
    IF url = UrlWatchA THEN <<"a", "1">>
    ELSE IF url = UrlWatchB THEN <<"b", "2">>
    ELSE <<>>

\* A slip: the text itself where the pattern does not match.
extractMatchOrInput(url) ==
    IF VIDEO_ID_REGEX(url) = <<>> THEN <<url>> ELSE VIDEO_ID_REGEX(url)

\* extractMatch(text, regex) for the video id: null is the empty text.
extractMatch(url) ==
    IF url = "" THEN <<>> ELSE VIDEO_ID_REGEX(url)

\* ------------------------------------------------------- network payloads
\* A video page as the extractor sees it: the regex lookups (title, author,
\* channelId; "" when the pattern does not match), whether a script holds the
\* player-response marker, whether the sliced text parses as JSON, and what
\* the parsed object carries.
NoDetails == [title |-> "", author |-> "", shortDescription |-> "", keywords |-> <<>>]

TrackEn == [languageCode |-> LangEn, baseUrl |-> <<"/api/timedtext?lang=en">>]

PageFull ==
    [title |-> "Tom &amp; Jerry", author |-> "Ann", channelId |-> "UC1",
     marker |-> TRUE, jsonOk |-> TRUE, captionTracks |-> <<TrackEn>>,
     videoDetails |-> [title |-> "Tom and Jerry (blob)", author |-> "Ann (blob)",
                       shortDescription |-> "desc", keywords |-> <<"cartoon">>],
     publishDate |-> "2024-01-01"]

PageNoTracks ==
    [PageFull EXCEPT !.captionTracks = <<>>]

PageNoMarker ==
    [title |-> "Tom &amp; Jerry", author |-> "Ann", channelId |-> "UC1",
     marker |-> FALSE, jsonOk |-> FALSE, captionTracks |-> <<>>,
     videoDetails |-> NoDetails, publishDate |-> ""]

PageBadJson ==
    [PageNoMarker EXCEPT !.marker = TRUE]

Pages == {PageFull, PageNoTracks, PageNoMarker, PageBadJson}

\* A caption payload: the <text> cues with their attributes as written
\* ("" when the attribute is missing).
CueOk == [text |-> "hello", dur |-> "2", start |-> "1"]
Xmls == {<<CueOk>>}

\* The bodies the network may hand back for a request URL.
Bodies(url) == IF url \in {<<u>> : u \in Urls \cup {UrlWatchB}} THEN Pages ELSE Xmls

\* decodeHTML over the texts of the model.
decodeHTML(text) ==
    CASE text = "" -> ""
      [] text = "Tom &amp; Jerry" -> "Tom & Jerry"
      [] OTHER -> text

\* The number that stands for NaN (no cue time is negative).
NaN == -1

\* parseFloat over the attribute texts of the model.
parseFloat(text) ==
    CASE text = "1" -> 1
      [] text = "2" -> 2
      [] text = "0" -> 0
      [] text = "2s" -> 2
      [] OTHER -> NaN

\* x * 1000 in floating point: NaN stays NaN.
TimesThousand(x) == IF x = NaN THEN NaN ELSE x * 1000

\* parseCaptions: one line per cue, seconds to milliseconds.
parseCaptions(captionsXML) ==
    [i \in 1..Len(captionsXML) |->
        [text |-> decodeHTML(captionsXML[i].text),
         duration |-> TimesThousand(parseFloat(
             IF captionsXML[i].dur = "" THEN "0" ELSE captionsXML[i].dur)),
         offset |-> TimesThousand(parseFloat(
             IF captionsXML[i].start = "" THEN "0" ELSE captionsXML[i].start))]]

\* ------------------------------------------------------------------- state
VARIABLES
    now,              \* Date.now()
    ticks,            \* how often the clock has advanced
    videoCache,       \* YouTubeService.videoCache, in key insertion order
    storage,          \* localStorage[CACHE_STORAGE_KEY]
    saveTimeout,      \* this.saveTimeout: the timer it refers to (a timer is
                      \* named by the time it is due), NoTimer for null
    saveTimers,       \* the debounce timers that are set and have not fired
    raised,           \* the call made in the last step threw to its caller
    reqs,             \* every QueuedRequest ever made, by request number
    requestQueue,     \* request numbers waiting for a slot
    processingQueue,  \* the drain loop's flag
    activeRequests,   \* the concurrency counter
    pollTimer,        \* the drain loop sleeps on its 100 ms timer
    started,          \* request numbers in the order they were dequeued
    calls,            \* every facade call ever made, by call number
    summaryCache,     \* VideoAnalysisService.summaryCache, in key insertion order
    summaryStorage,   \* localStorage['video-summary-cache']
    summarySaveTimeout, \* the saveTimeout of the VideoAnalysisService instance
    summarySaveTimers,  \* its debounce timers that are set and have not fired
    gens,             \* every generateMetadataSummary call ever made
    players,          \* the plugin's players table: player id and media link
    miniPlayerActive, \* the plugin's miniPlayerActive flag
    activeMiniPlayerId, \* the plugin's activeMiniPlayerId, <<>> for null
    notice,           \* the Notice the plugin's last command showed, "" for none
    processingVideos, \* the plugin's processingVideos set
    isProcessing,     \* the plugin's isProcessing flag
    videoSummaryCache, \* the plugin's videoSummaryCache, in key insertion order
    invocations       \* every summarizeVideo invocation ever made

summaryVars == <<summaryCache, summaryStorage, summarySaveTimeout,
                 summarySaveTimers, gens>>

summarizeVars == <<processingVideos, isProcessing, videoSummaryCache, invocations>>

pluginVars == <<players, miniPlayerActive, activeMiniPlayerId, notice, summarizeVars>>

vars == <<now, ticks, videoCache, storage, saveTimeout, saveTimers, raised, reqs,
          requestQueue, processingQueue, activeRequests, pollTimer, started, calls,
          summaryVars, pluginVars>>

\* ------------------------------------------------------------- cache table
\* A slip: the lookup never finds anything.
CacheIndexMiss(cache, key) == 0

\* The position of key in the table, 0 when absent.
CacheIndex(cache, key) ==
    IF \E i \in 1..Len(cache) : cache[i].key = key
    THEN CHOOSE i \in 1..Len(cache) : cache[i].key = key
    ELSE 0

\* cache[key] = { data, timestamp }: an existing key keeps its place.
\* A slip: a write under a key that is present is dropped.
CachePutKeepFirst(cache, key, data, timestamp) ==
    IF CacheIndex(cache, key) = 0
    THEN Append(cache, [key |-> key, data |-> data, timestamp |-> timestamp])
    ELSE cache

CachePut(cache, key, data, timestamp) ==
    LET e == [key |-> key, data |-> data, timestamp |-> timestamp]
        i == CacheIndex(cache, key)
    IN  IF i = 0 THEN Append(cache, e) ELSE [cache EXCEPT ![i] = e]

\* A slip: nothing ever expires.
IsExpiredNever(entry, t) == FALSE

\* The expiry test of cleanCache.
IsExpired(entry, t) == t - entry.timestamp > CACHE_EXPIRY_MS

\* A slip: the sort puts the newest first.
SortsNewestFirst(cache, i, j) ==
    \/ cache[i].timestamp > cache[j].timestamp
    \/ cache[i].timestamp = cache[j].timestamp /\ i < j

\* Position i comes before position j in the stable sort by timestamp.
SortsBefore(cache, i, j) ==
    \/ cache[i].timestamp < cache[j].timestamp
    \/ cache[i].timestamp = cache[j].timestamp /\ i < j

\* cleanCache: drop the expired entries, then the oldest beyond the bound.
cleanCache(cache, t) ==
    LET Fresh(entry) == ~IsExpired(entry, t)
        fresh == SelectSeq(cache, Fresh)
        n == Len(fresh)
        excess == n - MAX_CACHE_ENTRIES
        \* sortedKeys.slice(0, excess) is removed: the entries with fewer than
        \* excess entries sorting before them
        Kept(entry) ==
            LET i == CacheIndex(fresh, entry.key)
            IN  Cardinality({j \in 1..n : SortsBefore(fresh, j, i)}) >= excess
    IN  IF n > MAX_CACHE_ENTRIES
        THEN SelectSeq(fresh, Kept)
        ELSE fresh

\* A localStorage item: whether it is there, whether its text parses as
\* JSON, and the table the text parses to.
NoItem == [present |-> FALSE, parses |-> FALSE, value |-> <<>>]

\* saveCacheToStorage: [cache, storage] afterwards; setItemOk is whether
\* localStorage.setItem succeeds.
\* A slip: the table is stored as it is, without the cleanup pass.
saveCacheToStorageAsIs(cache, store, t, setItemOk) ==
    [cache |-> cache,
     storage |-> IF Len(cache) > 0 /\ setItemOk
                 THEN [present |-> TRUE, parses |-> TRUE, value |-> cache]
                 ELSE store]

saveCacheToStorage(cache, store, t, setItemOk) ==
    LET cleaned == cleanCache(cache, t)
    IN  [cache |-> cleaned,
         storage |-> IF Len(cleaned) > 0 /\ setItemOk
                     THEN [present |-> TRUE, parses |-> TRUE, value |-> cleaned]
                     ELSE store]

\* A slip: the pending timer is not cancelled.
DebounceNoClear(timer, t) ==
    [handle |-> t + SAVE_DEBOUNCE_MS, live |-> timer.live \cup {t + SAVE_DEBOUNCE_MS}]

\* debouncedSaveCache: clearTimeout on the pending timer, then a new timer due
\* in SAVE_DEBOUNCE_MS. timer is [handle, live].
debouncedSaveCache(timer, t) ==
    LET cleared == IF timer.handle # NoTimer THEN timer.live \ {timer.handle}
                   ELSE timer.live
    IN  [handle |-> t + SAVE_DEBOUNCE_MS, live |-> cleared \cup {t + SAVE_DEBOUNCE_MS}]

\* ----------------------------------------------------------- request queue
\* The queue's part of the state, passed through the calls of one macrotask.
QueueState ==
    [reqs |-> reqs, queue |-> requestQueue, processing |-> processingQueue,
     active |-> activeRequests, poll |-> pollTimer, started |-> started]

\* A slip: pop() for shift().
ShiftLast(queue) ==
    [item |-> queue[Len(queue)], rest |-> SubSeq(queue, 1, Len(queue) - 1)]

\* A slip: the request is read and left at the head of the list.
ShiftPeek(queue) == [item |-> Head(queue), rest |-> queue]

\* requestQueue.shift(): the request taken and the list left.
Shift(queue) == [item |-> Head(queue), rest |-> Tail(queue)]

\* A slip: > for >=.
AtCapacityOffByOne(active) == active > MAX_CONCURRENT_REQUESTS

\* The capacity test of the drain loop.
AtCapacity(active) == active >= MAX_CONCURRENT_REQUESTS

\* fetchWithTimeout up to its await: the timeout timer is armed and the
\* underlying request is sent.
StartFetch(req) ==
    [req EXCEPT !.net = "running", !.timer = TRUE, !.fwt = "pending"]

\* A slip: the flag is not reset.
LoopExitFlagKept(qs) == qs

\* The drain loop leaves: processingQueue = false.
LoopExit(qs) == [qs EXCEPT !.processing = FALSE]

\* The while loop of processQueue from its top to its next suspension (the
\* 100 ms sleep) or its exit.
RECURSIVE DrainLoop(_)
DrainLoop(qs) ==
    IF Len(qs.queue) > 0
    THEN IF AtCapacity(qs.active)
         THEN [qs EXCEPT !.poll = TRUE]
         ELSE LET sh == Shift(qs.queue)
              IN  DrainLoop([qs EXCEPT !.queue = sh.rest,
                                       !.active = @ + 1,
                                       !.reqs[sh.item] = StartFetch(@),
                                       !.started = Append(@, sh.item)])
    ELSE LoopExit(qs)

processQueue(qs) ==
    IF Len(qs.queue) = 0 \/ qs.processing
    THEN qs
    ELSE DrainLoop([qs EXCEPT !.processing = TRUE])

\* A slip: an enqueue starts a drain loop whatever the flag says.
queueRequestStartsLoop(qs, url, timeoutMs, call) ==
    DrainLoop([qs EXCEPT !.reqs = Append(@, [url |-> url, timeoutMs |-> timeoutMs,
                                             call |-> call, net |-> "idle",
                                             timer |-> FALSE, fwt |-> "none",
                                             caller |-> "pending", settles |-> 0,
                                             releases |-> 0,
                                             queuedBehind |-> qs.processing]),
                         !.queue = Append(@, Len(qs.reqs) + 1),
                         !.processing = TRUE])

\* A slip: the timeout timer runs from the enqueue.
NewRequestTimerArmed(url, timeoutMs, call) ==
    [url |-> url, timeoutMs |-> timeoutMs, call |-> call,
     net |-> "idle", timer |-> TRUE, fwt |-> "none",
     caller |-> "pending", settles |-> 0, releases |-> 0, queuedBehind |-> FALSE]

NewRequest(url, timeoutMs, call) ==
    [url |-> url, timeoutMs |-> timeoutMs, call |-> call,
     net |-> "idle", timer |-> FALSE, fwt |-> "none",
     caller |-> "pending", settles |-> 0, releases |-> 0, queuedBehind |-> FALSE]

queueRequest(qs, url, timeoutMs, call) ==
    LET req == [NewRequest(url, timeoutMs, call) EXCEPT !.queuedBehind = qs.processing]
        pushed == [qs EXCEPT !.reqs = Append(@, req),
                             !.queue = Append(@, Len(qs.reqs) + 1)]
    IN  IF ~pushed.processing THEN processQueue(pushed) ELSE pushed

\* A slip: callbacks attached to each completion instead of one promise, so
\* that a second completion counts again.
FwtSettleAgain(state, outcome) == outcome

\* A promise settles once: resolve and reject on a settled promise do nothing.
\* The promise fetchWithTimeout returns:
FwtSettle(state, outcome) == IF state = "pending" THEN outcome ELSE state

\* The promise queueRequest returns:
CallerSettle(state, outcome) == IF state = "pending" THEN outcome ELSE state

\* ------------------------------------------------------------------ errors
\* An error message is a sequence of text pieces.
TimeoutError(timeoutMs) == <<"Request timed out after ", ToString(timeoutMs), "ms">>
NetworkError == <<"net::ERR_FAILED">>
TranscriptPrefix == <<"Failed to fetch transcript: ">>
MetadataPrefix == <<"Failed to fetch video metadata: ">>

\* ------------------------------------------------------------------ facade
\* a || b on texts.
OrElse(a, b) == IF a = "" THEN b ELSE a

TranscriptKey(videoId, langCode) == <<"transcript_">> \o videoId \o <<"_">> \o langCode
MetadataKey(videoId) == <<"metadata_">> \o videoId

ChannelUrl(channelId) ==
    IF channelId # "" THEN <<"https://www.youtube.com/channel/", channelId>> ELSE <<>>

\* The first of the positions hits, 0 when there is none
\* (Array.prototype.find).
FindFirst(hits) ==
    IF hits = {} THEN 0 ELSE CHOOSE i \in hits : \A j \in hits : i <= j

\* A slip: the first track whose code contains the language wins, an exact
\* match further down the list notwithstanding.
SelectTrackFirstMatch(captionTracks, langCode) ==
    LET positions == 1..Len(captionTracks)
        partial == FindFirst({i \in positions :
                                 Includes(captionTracks[i].languageCode, langCode)})
    IN  IF partial # 0 THEN partial
        ELSE IF Len(captionTracks) > 0 THEN 1 ELSE 0

\* The caption track extractCaptions selects: its position, 0 when none.
SelectTrack(captionTracks, langCode) ==
    LET positions == 1..Len(captionTracks)
        Exact == {i \in positions : captionTracks[i].languageCode = langCode}
        Partial == {i \in positions : Includes(captionTracks[i].languageCode, langCode)}
        exact == IF langCode # <<>> THEN FindFirst(Exact) ELSE 0
        partial == IF langCode # <<>> /\ exact = 0 THEN FindFirst(Partial) ELSE 0
    IN  IF exact # 0 THEN exact
        ELSE IF partial # 0 THEN partial
        ELSE IF Len(captionTracks) > 0 THEN 1 ELSE 0

CaptionsUrl(baseUrl) ==
    IF Len(baseUrl) > 0 /\ Head(baseUrl) = "https://"
    THEN baseUrl
    ELSE <<"https://www.youtube.com">> \o baseUrl

\* extractCaptions up to its await: it throws, or it queues the caption fetch.
extractCaptions(page, langCode) ==
    IF ~page.marker
    THEN [throws |-> TRUE, message |-> <<"Failed to find player data">>, url |-> <<>>]
    ELSE IF ~page.jsonOk
    THEN [throws |-> TRUE, message |-> <<"Failed to parse caption data">>, url |-> <<>>]
    ELSE LET i == SelectTrack(page.captionTracks, langCode)
         IN  IF i = 0
             THEN [throws |-> TRUE, message |-> <<"No captions available">>, url |-> <<>>]
             ELSE [throws |-> FALSE, message |-> <<>>,
                   url |-> CaptionsUrl(page.captionTracks[i].baseUrl)]

NoMeta == [title |-> "", author |-> "", channelId |-> ""]
NoResult == [none |-> TRUE]

\* A facade call. Its last five fields are bookkeeping for the properties, not
\* state of the program: how many requests the call queued, whether the cache
\* served it, when it started, the timestamp of the cache entry that holds
\* its result, and whether that entry has been neither overwritten nor purged
\* since.
NewCall(kind, url, langCode) ==
    [kind |-> kind, url |-> url, langCode |-> langCode, videoId |-> <<>>,
     cacheKey |-> <<>>, pc |-> "start", meta |-> NoMeta, result |-> NoResult,
     error |-> <<>>, enqueued |-> 0, fromCache |-> FALSE, startedAt |-> 0,
     wroteAt |-> 0, intact |-> FALSE]

\* Bookkeeping: the calls whose entry under key is gone or replaced.
Overwritten(callSeq, key, except) ==
    [c \in 1..Len(callSeq) |->
        IF c # except /\ callSeq[c].cacheKey = key
        THEN [callSeq[c] EXCEPT !.intact = FALSE]
        ELSE callSeq[c]]

Purged(callSeq) ==
    [c \in 1..Len(callSeq) |-> [callSeq[c] EXCEPT !.intact = FALSE]]

TranscriptResponse(call, meta, lines) ==
    [url |-> call.url, videoId |-> call.videoId,
     title |-> decodeHTML(OrElse(meta.title, "Unknown")),
     author |-> decodeHTML(OrElse(meta.author, "Unknown")),
     channelUrl |-> ChannelUrl(meta.channelId),
     lines |-> lines]

NoEffect(call, cache) ==
    [call |-> call, cache |-> cache, arm |-> FALSE, wrote |-> FALSE, enq |-> <<>>]

\* A slip: the minimal response is returned and not cached.
CaptionErrorNotCached(call, meta, cache, t) ==
    [call |-> [call EXCEPT !.pc = "resolved",
                           !.result = TranscriptResponse(call, meta, <<>>)],
     cache |-> cache, arm |-> FALSE, wrote |-> FALSE, enq |-> <<>>]

\* The catch (captionError) branch of fetchTranscript: the minimal response
\* is cached and returned; no save is scheduled.
CaptionErrorBranch(call, meta, cache, t) ==
    LET minimalResponse == TranscriptResponse(call, meta, <<>>)
    IN  [call |-> [call EXCEPT !.pc = "resolved", !.result = minimalResponse,
                               !.wroteAt = t, !.intact = TRUE],
         cache |-> CachePut(cache, call.cacheKey, minimalResponse, t),
         arm |-> FALSE, wrote |-> TRUE, enq |-> <<>>]

\* A slip: a failed page fetch is passed on as it came.
TranscriptAfterPageUnwrapped(call, ok, payload, cache, t) ==
    IF ~ok
    THEN [call |-> [call EXCEPT !.pc = "rejected", !.error = payload],
          cache |-> cache, arm |-> FALSE, wrote |-> FALSE, enq |-> <<>>]
    ELSE LET meta == [title |-> payload.title, author |-> payload.author,
                      channelId |-> payload.channelId]
             cap == extractCaptions(payload, call.langCode)
         IN  IF cap.throws
             THEN CaptionErrorBranch(call, meta, cache, t)
             ELSE [call |-> [call EXCEPT !.pc = "awaitCaptions", !.meta = meta,
                                         !.enqueued = @ + 1],
                   cache |-> cache, arm |-> FALSE, wrote |-> FALSE,
                   enq |-> <<[url |-> cap.url, timeoutMs |-> CAPTION_TIMEOUT_MS]>>]

\* fetchTranscript from the settling of the page fetch to its next await or
\* its end.
TranscriptAfterPage(call, ok, payload, cache, t) ==
    IF ~ok
    THEN [call |-> [call EXCEPT !.pc = "rejected", !.error = TranscriptPrefix \o payload],
          cache |-> cache, arm |-> FALSE, wrote |-> FALSE, enq |-> <<>>]
    ELSE LET meta == [title |-> payload.title, author |-> payload.author,
                      channelId |-> payload.channelId]
             cap == extractCaptions(payload, call.langCode)
         IN  IF cap.throws
             THEN CaptionErrorBranch(call, meta, cache, t)
             ELSE [call |-> [call EXCEPT !.pc = "awaitCaptions", !.meta = meta,
                                         !.enqueued = @ + 1],
                   cache |-> cache, arm |-> FALSE, wrote |-> FALSE,
                   enq |-> <<[url |-> cap.url, timeoutMs |-> CAPTION_TIMEOUT_MS]>>]

\* fetchTranscript from the settling of the caption fetch to its end.
TranscriptAfterCaptions(call, ok, payload, cache, t) ==
    IF ~ok
    THEN CaptionErrorBranch(call, call.meta, cache, t)
    ELSE LET response == TranscriptResponse(call, call.meta, parseCaptions(payload))
         IN  [call |-> [call EXCEPT !.pc = "resolved", !.result = response,
                                    !.wroteAt = t, !.intact = TRUE],
              cache |-> CachePut(cache, call.cacheKey, response, t),
              arm |-> TRUE, wrote |-> TRUE, enq |-> <<>>]

\* fetchVideoMetadata from the settling of the page fetch to its end.
\* A slip: a page without the marker is taken like one whose JSON does not
\* parse.
MetadataMarkerNotRequired(call, ok, payload, cache, t) ==
    IF ~ok
    THEN [call |-> [call EXCEPT !.pc = "rejected", !.error = MetadataPrefix \o payload],
          cache |-> cache, arm |-> FALSE, wrote |-> FALSE, enq |-> <<>>]
    ELSE LET videoDetails == IF payload.jsonOk THEN payload.videoDetails ELSE NoDetails
             metadata ==
                 [title |-> decodeHTML(OrElse(payload.title,
                                              OrElse(videoDetails.title, "Unknown"))),
                  description |-> decodeHTML(videoDetails.shortDescription),
                  author |-> decodeHTML(OrElse(payload.author,
                                               OrElse(videoDetails.author, "Unknown"))),
                  channelUrl |-> ChannelUrl(payload.channelId),
                  tags |-> videoDetails.keywords,
                  publishDate |-> IF payload.jsonOk THEN payload.publishDate ELSE "",
                  videoId |-> call.videoId,
                  url |-> call.url]
         IN  [call |-> [call EXCEPT !.pc = "resolved", !.result = metadata,
                                    !.wroteAt = t, !.intact = TRUE],
              cache |-> CachePut(cache, call.cacheKey, metadata, t),
              arm |-> TRUE, wrote |-> TRUE, enq |-> <<>>]

MetadataAfterPage(call, ok, payload, cache, t) ==
    IF ~ok
    THEN [call |-> [call EXCEPT !.pc = "rejected", !.error = MetadataPrefix \o payload],
          cache |-> cache, arm |-> FALSE, wrote |-> FALSE, enq |-> <<>>]
    ELSE IF ~payload.marker
    THEN [call |-> [call EXCEPT !.pc = "rejected",
                                !.error = MetadataPrefix \o <<"Failed to find player data">>],
          cache |-> cache, arm |-> FALSE, wrote |-> FALSE, enq |-> <<>>]
    ELSE LET videoDetails == IF payload.jsonOk THEN payload.videoDetails ELSE NoDetails
             publishDate == IF payload.jsonOk THEN payload.publishDate ELSE ""
             metadata ==
                 [title |-> decodeHTML(OrElse(payload.title,
                                              OrElse(videoDetails.title, "Unknown"))),
                  description |-> decodeHTML(videoDetails.shortDescription),
                  author |-> decodeHTML(OrElse(payload.author,
                                               OrElse(videoDetails.author, "Unknown"))),
                  channelUrl |-> ChannelUrl(payload.channelId),
                  tags |-> videoDetails.keywords,
                  publishDate |-> publishDate,
                  videoId |-> call.videoId,
                  url |-> call.url]
         IN  [call |-> [call EXCEPT !.pc = "resolved", !.result = metadata,
                                    !.wroteAt = t, !.intact = TRUE],
              cache |-> CachePut(cache, call.cacheKey, metadata, t),
              arm |-> TRUE, wrote |-> TRUE, enq |-> <<>>]

\* The continuation of the facade call that awaits a queued request.
Continue(call, ok, payload, cache, t) ==
    CASE call.kind = "transcript" /\ call.pc = "awaitPage" ->
             TranscriptAfterPage(call, ok, payload, cache, t)
      [] call.kind = "transcript" /\ call.pc = "awaitCaptions" ->
             TranscriptAfterCaptions(call, ok, payload, cache, t)
      [] call.kind = "metadata" /\ call.pc = "awaitPage" ->
             MetadataAfterPage(call, ok, payload, cache, t)
      [] OTHER -> NoEffect(call, cache)

\* ----------------------------------------------------------------- actions
\* The plugin's fields as declared: no players, no mini player.
PluginInit ==
    /\ players = {}
    /\ miniPlayerActive = FALSE
    /\ activeMiniPlayerId = <<>>
    /\ notice = ""
    /\ processingVideos = {}
    /\ isProcessing = FALSE
    /\ videoSummaryCache = <<>>
    /\ invocations = <<>>

Init ==
    /\ PluginInit
    /\ now = 0
    /\ ticks = 0
    /\ videoCache = <<>>
    /\ storage = NoItem
    /\ saveTimeout = NoTimer
    /\ saveTimers = {}
    /\ raised = FALSE
    /\ summaryCache = <<>>
    /\ summaryStorage = NoItem
    /\ summarySaveTimeout = NoTimer
    /\ summarySaveTimers = {}
    /\ gens = <<>>
    /\ reqs = <<>>
    /\ requestQueue = <<>>
    /\ processingQueue = FALSE
    /\ activeRequests = 0
    /\ pollTimer = FALSE
    /\ started = <<>>
    /\ calls = <<>>

SetQueue(qs) ==
    /\ reqs' = qs.reqs
    /\ requestQueue' = qs.queue
    /\ processingQueue' = qs.processing
    /\ activeRequests' = qs.active
    /\ pollTimer' = qs.poll
    /\ started' = qs.started

queueVars == <<reqs, requestQueue, processingQueue, activeRequests, pollTimer, started>>

\* A facade call from its start to its first await or its end: the id check,
\* the cleanup pass, the cache lookup, the page fetch queued.
BeginCall(call0, prefix) ==
    LET c == Len(calls) + 1
        videoId == extractMatch(call0.url)
        cleaned == cleanCache(videoCache, now)
        cacheKey == IF call0.kind = "transcript"
                    THEN TranscriptKey(videoId, call0.langCode)
                    ELSE MetadataKey(videoId)
        i == CacheIndex(cleaned, cacheKey)
        call1 == [call0 EXCEPT !.videoId = videoId, !.cacheKey = cacheKey,
                               !.startedAt = now]
    IN  IF videoId = <<>>
        THEN /\ calls' = Append(calls, [call0 EXCEPT !.pc = "rejected", !.startedAt = now,
                                   !.error = prefix \o <<"Invalid YouTube URL">>])
             /\ UNCHANGED <<videoCache, queueVars>>
        ELSE IF i # 0
        THEN /\ calls' = Append(calls, [call1 EXCEPT !.pc = "resolved",
                                   !.result = cleaned[i].data, !.fromCache = TRUE,
                                   !.wroteAt = cleaned[i].timestamp, !.intact = TRUE])
             /\ videoCache' = cleaned
             /\ UNCHANGED queueVars
        ELSE /\ calls' = Append(calls, [call1 EXCEPT !.pc = "awaitPage", !.enqueued = 1])
             /\ videoCache' = cleaned
             /\ SetQueue(queueRequest(QueueState, <<call0.url>>, DEFAULT_TIMEOUT_MS, c))

fetchTranscript(url, langCode) ==
    /\ BeginCall(NewCall("transcript", url, langCode), TranscriptPrefix)
    /\ raised' = FALSE
    /\ UNCHANGED <<now, ticks, storage, saveTimeout, saveTimers, summaryVars,
                   pluginVars>>

fetchVideoMetadata(url) ==
    /\ BeginCall(NewCall("metadata", url, <<>>), MetadataPrefix)
    /\ raised' = FALSE
    /\ UNCHANGED <<now, ticks, storage, saveTimeout, saveTimers, summaryVars,
                   pluginVars>>

\* The then / catch callback processQueue hangs on fetchWithTimeout's promise,
\* and the facade continuation the settled caller promise resumes. reqs1 is
\* reqs as fetchWithTimeout left it.
Settled(r, outcome, payload, reqs1) ==
    LET caller1 == CallerSettle(reqs1[r].caller, outcome)
        reqs2 == [reqs1 EXCEPT ![r].caller = caller1,
                               ![r].settles = @ + 1,
                               ![r].releases = @ + 1]
        c == reqs[r].call
        eff == IF caller1 # reqs1[r].caller
               THEN Continue(calls[c], outcome = "resolved", payload, videoCache, now)
               ELSE NoEffect(calls[c], videoCache)
        qs0 == [QueueState EXCEPT !.reqs = reqs2, !.active = @ - 1]
        qs1 == IF eff.enq # <<>>
               THEN queueRequest(qs0, eff.enq[1].url, eff.enq[1].timeoutMs, c)
               ELSE qs0
    IN  /\ SetQueue(qs1)
        /\ calls' = LET calls1 == [calls EXCEPT ![c] = eff.call]
                     IN  IF eff.wrote THEN Overwritten(calls1, eff.call.cacheKey, c)
                         ELSE calls1
        /\ videoCache' = eff.cache
        /\ LET timer == [handle |-> saveTimeout, live |-> saveTimers]
               armed == IF eff.arm THEN debouncedSaveCache(timer, now) ELSE timer
           IN  /\ saveTimeout' = armed.handle
               /\ saveTimers' = armed.live
        /\ raised' = FALSE
        /\ UNCHANGED <<now, ticks, storage, summaryVars, pluginVars>>

\* What a completion of fetchWithTimeout's race does: it settles the promise
\* and, when that settled it, runs the callbacks.
Complete(r, outcome, payload, reqs0) ==
    LET fwt1 == FwtSettle(reqs0[r].fwt, outcome)
        reqs1 == [reqs0 EXCEPT ![r].fwt = fwt1]
    IN  IF fwt1 # reqs0[r].fwt
        THEN Settled(r, IF fwt1 = "fulfilled" THEN "resolved" ELSE "rejected",
                     payload, reqs1)
        ELSE /\ reqs' = reqs1
             /\ raised' = FALSE
             /\ UNCHANGED <<now, ticks, videoCache, storage, saveTimeout, saveTimers,
                            requestQueue, processingQueue, activeRequests, pollTimer,
                            started, calls, summaryVars, pluginVars>>

\* The underlying request returns a body: clearTimeout, resolve(response).
NetReturn(r, body) ==
    /\ reqs[r].net = "running"
    /\ Complete(r, "fulfilled", body,
                [reqs EXCEPT ![r].net = "done", ![r].timer = FALSE])

\* The underlying request fails: clearTimeout, reject(error).
NetFail(r) ==
    /\ reqs[r].net = "running"
    /\ Complete(r, "rejected", NetworkError,
                [reqs EXCEPT ![r].net = "done", ![r].timer = FALSE])

\* The timeout timer of fetchWithTimeout fires: reject(timed out). The
\* underlying request is not cancelled.
TimeoutFire(r) ==
    /\ reqs[r].timer
    /\ Complete(r, "rejected", TimeoutError(reqs[r].timeoutMs),
                [reqs EXCEPT ![r].timer = FALSE])

\* The 100 ms sleep of the drain loop ends: back to the top of the loop.
PollFire ==
    /\ pollTimer
    /\ SetQueue(DrainLoop([QueueState EXCEPT !.poll = FALSE]))
    /\ raised' = FALSE
    /\ UNCHANGED <<now, ticks, videoCache, storage, saveTimeout, saveTimers, calls,
                   summaryVars, pluginVars>>

\* The debounce timer due at due fires: saveCacheToStorage, saveTimeout = null.
SaveTimerFire(due, setItemOk) ==
    /\ due \in saveTimers
    /\ now >= due
    /\ LET saved == saveCacheToStorage(videoCache, storage, now, setItemOk)
       IN  /\ videoCache' = saved.cache
           /\ storage' = saved.storage
    /\ saveTimeout' = NoTimer
    /\ saveTimers' = saveTimers \ {due}
    /\ raised' = FALSE
    /\ UNCHANGED <<now, ticks, queueVars, calls, summaryVars, pluginVars>>

\* visibilitychange to hidden: saveCacheToStorage.
VisibilityHidden(setItemOk) ==
    /\ LET saved == saveCacheToStorage(videoCache, storage, now, setItemOk)
       IN  /\ videoCache' = saved.cache
           /\ storage' = saved.storage
    /\ raised' = FALSE
    /\ UNCHANGED <<now, ticks, saveTimeout, saveTimers, queueVars, calls,
                   summaryVars, pluginVars>>

\* The setInterval of the constructor: cleanCache.
PeriodicClean ==
    /\ videoCache' = cleanCache(videoCache, now)
    /\ raised' = FALSE
    /\ UNCHANGED <<now, ticks, storage, saveTimeout, saveTimers, queueVars, calls,
                   summaryVars, pluginVars>>

\* A slip: the stored copy is removed and the table left as it is.
purgeCacheTableKept(removeOk) ==
    /\ storage' = IF removeOk THEN NoItem ELSE storage
    /\ raised' = ~removeOk
    /\ UNCHANGED <<now, ticks, videoCache, saveTimeout, saveTimers, queueVars, calls,
                   summaryVars, pluginVars>>

\* purgeCache: the table is emptied, then the stored copy removed (removeOk is
\* whether localStorage.removeItem succeeds; nothing catches what it throws).
purgeCache(removeOk) ==
    /\ videoCache' = <<>>
    /\ storage' = IF removeOk THEN NoItem ELSE storage
    /\ calls' = Purged(calls)
    /\ raised' = ~removeOk
    /\ UNCHANGED <<now, ticks, saveTimeout, saveTimers, queueVars,
                   summaryVars, pluginVars>>

\* Time passes.
Tick(delta) ==
    /\ ticks' = ticks + 1
    /\ now' = now + delta
    /\ raised' = FALSE
    /\ UNCHANGED <<videoCache, storage, saveTimeout, saveTimers, queueVars, calls,
                   summaryVars, pluginVars>>

\* -------------------------------------------------- load of YouTubeService
\* A slip: every stored entry is restored, whatever its age.
RestoreAny(entry, t) == TRUE

\* The test of loadCacheFromStorage on a stored entry: it is there, it has a
\* timestamp (0 stands for a missing one: both are falsy) and it is younger
\* than the expiry window.
Restorable(entry, t) ==
    entry.timestamp # 0 /\ t - entry.timestamp < CACHE_EXPIRY_MS

\* The forEach of loadCacheFromStorage from stored entry i on.
RECURSIVE Restore(_, _, _, _)
Restore(cache, stored, i, t) ==
    IF i > Len(stored) THEN cache
    ELSE Restore(IF Restorable(stored[i], t)
                 THEN CachePut(cache, stored[i].key, stored[i].data, stored[i].timestamp)
                 ELSE cache,
                 stored, i + 1, t)

\* loadCacheFromStorage: the table afterwards. getItemOk is whether
\* localStorage.getItem succeeds; an item that is absent or empty is skipped;
\* a text that does not parse to an object ends in the catch block.
loadCacheFromStorage(cache, store, t, getItemOk) ==
    IF ~getItemOk THEN <<>>
    ELSE IF ~store.present THEN cache
    ELSE IF ~store.parses THEN <<>>
    ELSE Restore(cache, store.value, 1, t)

\* No request of the instance is under way and none of its timers is set.
Quiet ==
    /\ saveTimers = {}
    /\ requestQueue = <<>>
    /\ ~pollTimer
    /\ \A r \in 1..Len(reqs) : reqs[r].net # "running" /\ ~reqs[r].timer

\* new YouTubeService(): the constructor loads the stored copy into the
\* process-wide table. Made while the instance before it is quiet, so that
\* the fields of one instance stand for both.
NewYouTubeService(getItemOk) ==
    /\ Quiet
    /\ videoCache' = loadCacheFromStorage(videoCache, storage, now, getItemOk)
    /\ calls' = Purged(calls)
    /\ saveTimeout' = NoTimer
    /\ raised' = FALSE
    /\ UNCHANGED <<now, ticks, storage, saveTimers, queueVars, summaryVars,
                   pluginVars>>

\* ------------------------------------------------- VideoAnalysisService
\* (src/src/services/video-analysis.ts) An entry of the summary table is
\* [key, data, timestamp] with the summary text as data.
SUMMARY_CACHE_EXPIRY_MS == 86400000
SUMMARY_MAX_CACHE_ENTRIES == 50

VideoIds == {<<"a", "1">>, <<"b", "2">>}
\* What the LLM collaborator may answer.
Summaries == {"summary one", "summary two"}

SummaryKey(videoId) == <<"metadata_">> \o videoId
MultimodalKey(videoId) == <<"multimodal_">> \o videoId

summaryIsExpired(entry, t) == t - entry.timestamp > SUMMARY_CACHE_EXPIRY_MS

\* cleanCache of VideoAnalysisService.
summaryCleanCache(cache, t) ==
    LET Fresh(entry) == ~summaryIsExpired(entry, t)
        fresh == SelectSeq(cache, Fresh)
        n == Len(fresh)
        excess == n - SUMMARY_MAX_CACHE_ENTRIES
        Kept(entry) ==
            LET i == CacheIndex(fresh, entry.key)
            IN  Cardinality({j \in 1..n : SortsBefore(fresh, j, i)}) >= excess
    IN  IF n > SUMMARY_MAX_CACHE_ENTRIES
        THEN SelectSeq(fresh, Kept)
        ELSE fresh

\* saveCacheToStorage of VideoAnalysisService.
summarySaveCacheToStorage(cache, store, t, setItemOk) ==
    LET cleaned == summaryCleanCache(cache, t)
    IN  [cache |-> cleaned,
         storage |-> IF Len(cleaned) > 0 /\ setItemOk
                     THEN [present |-> TRUE, parses |-> TRUE, value |-> cleaned]
                     ELSE store]

\* A slip: the stored copy of the summaries is restored whole.
summaryRestoreAny(entry, t) == TRUE

summaryRestorable(entry, t) ==
    entry.timestamp # 0 /\ t - entry.timestamp < SUMMARY_CACHE_EXPIRY_MS

RECURSIVE summaryRestore(_, _, _, _)
summaryRestore(cache, stored, i, t) ==
    IF i > Len(stored) THEN cache
    ELSE summaryRestore(IF summaryRestorable(stored[i], t)
                        THEN CachePut(cache, stored[i].key, stored[i].data,
                                      stored[i].timestamp)
                        ELSE cache,
                        stored, i + 1, t)

\* loadCacheFromStorage of VideoAnalysisService.
summaryLoadCacheFromStorage(cache, store, t, getItemOk) ==
    IF ~getItemOk THEN <<>>
    ELSE IF ~store.present THEN cache
    ELSE IF ~store.parses THEN <<>>
    ELSE summaryRestore(cache, store.value, 1, t)

\* getCachedSummary: the cleanup pass, then the lookup. found is whether the
\* table has the key; summary is what is returned ("" for null).
getCachedSummary(cache, key, t) ==
    LET cleaned == summaryCleanCache(cache, t)
        i == CacheIndex(cleaned, key)
    IN  [cache |-> cleaned, found |-> i # 0,
         summary |-> IF i # 0 THEN cleaned[i].data ELSE "",
         timestamp |-> IF i # 0 THEN cleaned[i].timestamp ELSE 0]

\* A generateMetadataSummary call. The fields after error are bookkeeping for
\* the properties: what getCachedSummary found, how often the LLM was called,
\* when the call started, the timestamp of the entry that holds its result
\* and whether that entry has been neither overwritten nor cleared since.
NewGen(videoId) ==
    [videoId |-> videoId, key |-> SummaryKey(videoId), pc |-> "start",
     result |-> "", error |-> <<>>, found |-> FALSE, llmCalls |-> 0,
     startedAt |-> 0, wroteAt |-> 0, intact |-> FALSE]

\* Bookkeeping: the generation calls whose entry under key is gone or replaced.
SummaryOverwritten(genSeq, key, except) ==
    [g \in 1..Len(genSeq) |->
        IF g # except /\ genSeq[g].key = key
        THEN [genSeq[g] EXCEPT !.intact = FALSE]
        ELSE genSeq[g]]

SummaryCleared(genSeq) ==
    [g \in 1..Len(genSeq) |-> [genSeq[g] EXCEPT !.intact = FALSE]]

\* generateMetadataSummary up to its await or its end.
generateMetadataSummary(videoId) ==
    LET gen0 == [NewGen(videoId) EXCEPT !.startedAt = now]
        got == getCachedSummary(summaryCache, gen0.key, now)
    IN  /\ summaryCache' = got.cache
        /\ gens' = Append(gens,
               IF got.summary # ""
               THEN [gen0 EXCEPT !.pc = "resolved", !.result = got.summary,
                                 !.found = got.found, !.wroteAt = got.timestamp,
                                 !.intact = TRUE]
               ELSE [gen0 EXCEPT !.pc = "awaitLLM", !.found = got.found,
                                 !.llmCalls = 1])
        /\ raised' = FALSE
        /\ UNCHANGED <<now, ticks, videoCache, storage, saveTimeout, saveTimers,
                       queueVars, calls, summaryStorage, summarySaveTimeout,
                       summarySaveTimers, pluginVars>>

\* llmService.summarize resolves: cacheSummary (the write and the debounced
\* save), then the summary is returned.
SummarizeReturn(g, summary) ==
    /\ gens[g].pc = "awaitLLM"
    /\ summaryCache' = CachePut(summaryCache, gens[g].key, summary, now)
    /\ LET armed == debouncedSaveCache([handle |-> summarySaveTimeout,
                                        live |-> summarySaveTimers], now)
       IN  /\ summarySaveTimeout' = armed.handle
           /\ summarySaveTimers' = armed.live
    /\ gens' = SummaryOverwritten(
                   [gens EXCEPT ![g].pc = "resolved", ![g].result = summary,
                                ![g].wroteAt = now, ![g].intact = TRUE],
                   gens[g].key, g)
    /\ raised' = FALSE
    /\ UNCHANGED <<now, ticks, videoCache, storage, saveTimeout, saveTimers,
                   queueVars, calls, summaryStorage, pluginVars>>

\* llmService.summarize rejects: the error is logged and thrown again.
\* A slip: the failed generation leaves an entry with an empty summary.
SummarizeFailCaches(g) ==
    /\ gens[g].pc = "awaitLLM"
    /\ gens' = [gens EXCEPT ![g].pc = "rejected", ![g].error = <<"LLM error">>]
    /\ summaryCache' = CachePut(summaryCache, gens[g].key, "", now)
    /\ raised' = FALSE
    /\ UNCHANGED <<now, ticks, videoCache, storage, saveTimeout, saveTimers,
                   queueVars, calls, summaryStorage,
                   summarySaveTimeout, summarySaveTimers, pluginVars>>

SummarizeFail(g) ==
    /\ gens[g].pc = "awaitLLM"
    /\ gens' = [gens EXCEPT ![g].pc = "rejected", ![g].error = <<"LLM error">>]
    /\ raised' = FALSE
    /\ UNCHANGED <<now, ticks, videoCache, storage, saveTimeout, saveTimers,
                   queueVars, calls, summaryCache, summaryStorage,
                   summarySaveTimeout, summarySaveTimers, pluginVars>>

\* The debounce timer of VideoAnalysisService fires.
SummarySaveTimerFire(due, setItemOk) ==
    /\ due \in summarySaveTimers
    /\ now >= due
    /\ LET saved == summarySaveCacheToStorage(summaryCache, summaryStorage, now, setItemOk)
       IN  /\ summaryCache' = saved.cache
           /\ summaryStorage' = saved.storage
    /\ summarySaveTimeout' = NoTimer
    /\ summarySaveTimers' = summarySaveTimers \ {due}
    /\ raised' = FALSE
    /\ UNCHANGED <<now, ticks, videoCache, storage, saveTimeout, saveTimers,
                   queueVars, calls, gens, pluginVars>>

\* The setInterval of the VideoAnalysisService constructor: cleanCache.
SummaryPeriodicClean ==
    /\ summaryCache' = summaryCleanCache(summaryCache, now)
    /\ raised' = FALSE
    /\ UNCHANGED <<now, ticks, videoCache, storage, saveTimeout, saveTimers,
                   queueVars, calls, summaryStorage, summarySaveTimeout,
                   summarySaveTimers, gens, pluginVars>>

\* The entries of cache whose key is not in keys.
Without(cache, keys) ==
    LET Stays(entry) == entry.key \notin keys
    IN  SelectSeq(cache, Stays)

\* clearCache(videoId): the two entries of the video go, or all of them when
\* videoId is empty (falsy); then saveCacheToStorage.
clearCache(videoId, setItemOk) ==
    /\ LET cleared == IF videoId # <<>>
                      THEN Without(summaryCache,
                                   {SummaryKey(videoId), MultimodalKey(videoId)})
                      ELSE <<>>
           saved == summarySaveCacheToStorage(cleared, summaryStorage, now, setItemOk)
       IN  /\ summaryCache' = saved.cache
           /\ summaryStorage' = saved.storage
    /\ gens' = SummaryCleared(gens)
    /\ raised' = FALSE
    /\ UNCHANGED <<now, ticks, videoCache, storage, saveTimeout, saveTimers,
                   queueVars, calls, summarySaveTimeout, summarySaveTimers,
                   pluginVars>>

\* new VideoAnalysisService(settings, llmService): the constructor loads the
\* stored copy into the process-wide table. Made while no timer of the
\* instance before it is set and none of its calls is under way.
NewVideoAnalysisService(getItemOk) ==
    /\ summarySaveTimers = {}
    /\ \A g \in 1..Len(gens) : gens[g].pc # "awaitLLM"
    /\ summaryCache' = summaryLoadCacheFromStorage(summaryCache, summaryStorage, now,
                                                   getItemOk)
    /\ gens' = SummaryCleared(gens)
    /\ summarySaveTimeout' = NoTimer
    /\ raised' = FALSE
    /\ UNCHANGED <<now, ticks, videoCache, storage, saveTimeout, saveTimers,
                   queueVars, calls, summaryStorage, summarySaveTimers,
                   pluginVars>>

\* The callers of the facade.
Caller ==
    \/ \E url \in Urls, langCode \in LangCodes : fetchTranscript(url, langCode)
    \/ \E url \in Urls : fetchVideoMetadata(url)

\* The ends of the started fetches.
Completion ==
    \/ \E r \in 1..Len(reqs) : \E body \in Bodies(reqs[r].url) : NetReturn(r, body)
    \/ \E r \in 1..Len(reqs) : NetFail(r)
    \/ \E r \in 1..Len(reqs) : TimeoutFire(r)

\* No facade call is under way.
NoCallPending ==
    \A c \in 1..Len(calls) : calls[c].pc \in {"resolved", "rejected"}

\* The service under callers that call one at a time, with the clock, the
\* timers of the cache and the purge. One call at a time has one request
\* queued at most, so the drain loop never finds the queue at capacity and
\* its 100 ms timer is never armed.
Next ==
    \/ Len(calls) < MaxCalls /\ NoCallPending /\ Caller
    \/ Completion
    \/ \E due \in saveTimers, setItemOk \in BOOLEAN : SaveTimerFire(due, setItemOk)
    \/ \E setItemOk \in BOOLEAN : VisibilityHidden(setItemOk)
    \/ PeriodicClean
    \/ \E removeOk \in BOOLEAN : purgeCache(removeOk)
    \/ ticks < MaxTicks /\ \E delta \in {CACHE_EXPIRY_MS, CACHE_EXPIRY_MS + 1} : Tick(delta)

Spec == Init /\ [][Next]_vars

\* The summary service: its callers, the ends of its LLM calls.
SummaryCaller ==
    \E videoId \in VideoIds : generateMetadataSummary(videoId)

SummaryCompletion ==
    \/ \E g \in 1..Len(gens) : \E summary \in Summaries : SummarizeReturn(g, summary)
    \/ \E g \in 1..Len(gens) : SummarizeFail(g)

\* Tables filled to their bounds. Entry i of a full table was written
\* Offset(pattern, i) after FullBase; the patterns differ in how the write
\* times relate to the insertion order.
Patterns == {"descending", "scattered", "ties"}

Offset(pattern, i) ==
    CASE pattern = "descending" -> 200 - i
      [] pattern = "scattered" -> (i * 37) % 101
      [] OTHER -> i % 3

FullTable(pattern, n, base) ==
    [i \in 1..n |-> [key |-> <<"filler", ToString(i)>>, data |-> "filler",
                     timestamp |-> base + Offset(pattern, i)]]

\* One of the tables is at its bound and every entry of it is as old as the
\* expiry window allows, or a little younger; the services are otherwise as
\* constructed.
FullInit ==
    /\ PluginInit
    /\ now = SUMMARY_CACHE_EXPIRY_MS
    /\ \E pattern \in Patterns :
           \/ /\ videoCache = FullTable(pattern, MAX_CACHE_ENTRIES,
                                        SUMMARY_CACHE_EXPIRY_MS - CACHE_EXPIRY_MS)
              /\ summaryCache = <<>>
           \/ /\ videoCache = <<>>
              /\ summaryCache = FullTable(pattern, SUMMARY_MAX_CACHE_ENTRIES, 0)
    /\ ticks = 0
    /\ storage = NoItem
    /\ saveTimeout = NoTimer
    /\ saveTimers = {}
    /\ raised = FALSE
    /\ reqs = <<>>
    /\ requestQueue = <<>>
    /\ processingQueue = FALSE
    /\ activeRequests = 0
    /\ pollTimer = FALSE
    /\ started = <<>>
    /\ calls = <<>>
    /\ summaryStorage = NoItem
    /\ summarySaveTimeout = NoTimer
    /\ summarySaveTimers = {}
    /\ gens = <<>>

\* Callers with a URL that has a video id.
ValidCaller ==
    \/ \E langCode \in LangCodes : fetchTranscript(UrlWatchA, langCode)
    \/ fetchVideoMetadata(UrlWatchA)

\* The two services share the clock and nothing else: a run exercises the one
\* whose table is full, with calls that may overlap.
FullNext ==
    \/ Len(calls) < MaxBulkCalls /\ summaryCache = <<>> /\ ValidCaller
    \/ Completion
    \/ PeriodicClean
    \/ Len(gens) < MaxBulkCalls /\ videoCache = <<>> /\ SummaryCaller
    \/ SummaryCompletion
    \/ SummaryPeriodicClean
    \/ ticks < MaxTicks /\ Tick(1)

FullSpec == FullInit /\ [][FullNext]_vars

\* No generateMetadataSummary call is under way.
NoGenPending ==
    \A g \in 1..Len(gens) : gens[g].pc # "awaitLLM"

\* The two tables through their expiry windows: a run exercises one of the
\* services, with calls one after the other, and between calls the clock
\* moves by a millisecond or by a millisecond less than the expiry window.
ExpiryNext ==
    \/ Len(calls) < MaxCalls /\ NoCallPending /\ gens = <<>> /\ ValidCaller
    \/ Completion
    \/ NoCallPending /\ PeriodicClean
    \/ NoCallPending /\ calls # <<>> /\ purgeCache(TRUE)
    \/ Len(gens) < MaxCalls /\ NoGenPending /\ calls = <<>> /\ SummaryCaller
    \/ SummaryCompletion
    \/ NoGenPending /\ SummaryPeriodicClean
    \/ NoGenPending /\ gens # <<>> /\ clearCache(<<>>, TRUE)
    \/ /\ ticks < MaxExpiryTicks
       /\ NoCallPending /\ NoGenPending
       /\ \/ Tick(1)
          \/ calls # <<>> /\ Tick(CACHE_EXPIRY_MS - 1)
          \/ gens # <<>> /\ Tick(SUMMARY_CACHE_EXPIRY_MS - 1)

ExpirySpec == Init /\ [][ExpiryNext]_vars

\* The time at which the loads are tried: late enough for a stored entry to be
\* older than either window.
LoadTime == 2 * SUMMARY_CACHE_EXPIRY_MS

\* The timestamp of a stored entry: none (0 stands for a missing one), a
\* millisecond old, a millisecond younger than the window, exactly as old, a
\* millisecond older.
StoredTimestamp(choice, window) ==
    CASE choice = 1 -> 0
      [] choice = 2 -> LoadTime - 1
      [] choice = 3 -> LoadTime - window + 1
      [] choice = 4 -> LoadTime - window
      [] OTHER -> LoadTime - window - 1

\* A table over the keys metadata_v1, metadata_v2, ...: choices[i] = 0
\* leaves key i out, any other choice gives its entry that timestamp.
LoadTable(choices, data, window) ==
    LET all == [i \in 1..MaxLoadKeys |->
                   [key |-> MetadataKey(<<"v", ToString(i)>>), data |-> data,
                    timestamp |-> IF choices[i] = 0 THEN -1
                                  ELSE StoredTimestamp(choices[i], window)]]
        Chosen(entry) == entry.timestamp # -1
    IN  SelectSeq(all, Chosen)

\* What localStorage may hold under the cache key: nothing, a text that does
\* not parse, or the JSON of a table.
StoredItems(window) ==
    {NoItem, [present |-> TRUE, parses |-> FALSE, value |-> <<>>]}
    \cup {[present |-> TRUE, parses |-> TRUE, value |-> LoadTable(choices, "stored", window)] :
              choices \in [1..MaxLoadKeys -> 0..5]}

\* What the process-wide table may hold when a service is constructed:
\* unexpired entries written through an earlier instance.
MemoryTables(window) ==
    {LoadTable(choices, "memory", window) : choices \in [1..MaxLoadKeys -> {0, 2}]}

\* A service is about to be constructed (plugin load, settings reset) over a
\* table and a stored copy; a run exercises one of the services.
LoadInit ==
    /\ PluginInit
    /\ now = LoadTime
    /\ ticks = 0
    /\ \/ /\ videoCache \in MemoryTables(CACHE_EXPIRY_MS)
          /\ storage \in StoredItems(CACHE_EXPIRY_MS)
          /\ summaryCache = <<>>
          /\ summaryStorage = NoItem
       \/ /\ videoCache = <<>>
          /\ storage = NoItem
          /\ summaryCache \in MemoryTables(SUMMARY_CACHE_EXPIRY_MS)
          /\ summaryStorage \in StoredItems(SUMMARY_CACHE_EXPIRY_MS)
    /\ saveTimeout = NoTimer
    /\ saveTimers = {}
    /\ raised = FALSE
    /\ summarySaveTimeout = NoTimer
    /\ summarySaveTimers = {}
    /\ gens = <<>>
    /\ reqs = <<>>
    /\ requestQueue = <<>>
    /\ processingQueue = FALSE
    /\ activeRequests = 0
    /\ pollTimer = FALSE
    /\ started = <<>>
    /\ calls = <<>>

LoadNext ==
    \/ \E getItemOk \in BOOLEAN : NewYouTubeService(getItemOk)
    \/ \E getItemOk \in BOOLEAN : NewVideoAnalysisService(getItemOk)

LoadSpec == LoadInit /\ [][LoadNext]_vars

\* A save timer is pending and not yet due.
TimerWaits == \E due \in saveTimers \cup summarySaveTimers : now < due

\* The clock moves while a save timer waits, by half the debounce delay or by
\* a millisecond less than the delay, between calls.
DebounceTick ==
    /\ TimerWaits
    /\ NoCallPending /\ NoGenPending
    /\ \E delta \in {SAVE_DEBOUNCE_MS \div 2, SAVE_DEBOUNCE_MS - 1} : Tick(delta)

\* The debounced saves of the two services: a run exercises one of them, with
\* calls one after the other, less than five seconds apart or more.
DebounceNext ==
    \/ Len(calls) < MaxBulkCalls /\ NoCallPending /\ gens = <<>> /\ ValidCaller
    \/ Completion
    \/ \E due \in saveTimers, setItemOk \in BOOLEAN : SaveTimerFire(due, setItemOk)
    \/ Len(gens) < MaxBulkCalls /\ NoGenPending /\ calls = <<>> /\ SummaryCaller
    \/ SummaryCompletion
    \/ \E due \in summarySaveTimers, setItemOk \in BOOLEAN :
           SummarySaveTimerFire(due, setItemOk)
    \/ DebounceTick

DebounceSpec == Init /\ [][DebounceNext]_vars

\* Language codes of caption tracks, and the languages a caller may ask for:
\* none, one that a track may have, one that no track has.
LangEnUS == <<"e", "n", "-", "U", "S">>
LangFr == <<"f", "r">>
LangDe == <<"d", "e">>
TrackCodes == {LangEn, LangEnUS, LangFr}
TrackLangs == {<<>>, LangEn, LangEnUS, LangDe}

\* The language codes codes, joined with commas.
RECURSIVE JoinCodes(_)
JoinCodes(codes) ==
    IF codes = <<>> THEN <<>>
    ELSE IF Len(codes) = 1 THEN codes[1]
    ELSE codes[1] \o <<",">> \o JoinCodes(Tail(codes))

\* The caption-track list with the language codes codes. A track's base URL
\* is relative and tells the track's code, its position and the codes of the
\* list it is in.
TrackList(codes) ==
    [i \in 1..Len(codes) |->
        [languageCode |-> codes[i],
         baseUrl |-> <<"/api/timedtext?lang=">> \o codes[i]
                     \o <<"&n=", ToString(i), "&of=">> \o JoinCodes(codes)]]

TrackLists ==
    {TrackList(codes) : codes \in UNION {[1..n -> TrackCodes] : n \in 0..MaxTracks}}

\* The watch page with the caption tracks captionTracks.
TrackPage(captionTracks) == [PageFull EXCEPT !.captionTracks = captionTracks]

\* Track selection: one fetchTranscript call for some language, a watch page
\* with some track list, then the caption fetch.
TrackNext ==
    \/ calls = <<>> /\ \E langCode \in TrackLangs : fetchTranscript(UrlWatchA, langCode)
    \/ \E r \in 1..Len(reqs), captionTracks \in TrackLists :
           reqs[r].url = <<UrlWatchA>> /\ NetReturn(r, TrackPage(captionTracks))
    \/ \E r \in 1..Len(reqs), body \in Xmls :
           reqs[r].url # <<UrlWatchA>> /\ NetReturn(r, body)

TrackSpec == Init /\ [][TrackNext]_vars

\* What a dur or start attribute of a cue may be: missing (or empty), a
\* number, a number followed by a unit, not a number.
CueAttributes == {"", "1", "2", "2s", "abc"}
Cues == {[text |-> "hello", dur |-> dur, start |-> start] :
            dur \in CueAttributes, start \in CueAttributes}
CueXmls == UNION {[1..n -> Cues] : n \in 0..MaxCues}

\* Caption parsing: one fetchTranscript call, the watch page with its English
\* track, then a captions document with any cues.
CueNext ==
    \/ calls = <<>> /\ fetchTranscript(UrlWatchA, LangEn)
    \/ \E r \in 1..Len(reqs) :
           reqs[r].url = <<UrlWatchA>> /\ NetReturn(r, PageFull)
    \/ \E r \in 1..Len(reqs), captionsXML \in CueXmls :
           reqs[r].url # <<UrlWatchA>> /\ NetReturn(r, captionsXML)

CueSpec == Init /\ [][CueNext]_vars

\* The facade calls of the two services with every outcome: a run exercises
\* one service, with calls for valid and invalid URLs that may overlap, or
\* generations that may overlap.
FacadeNext ==
    \/ Len(calls) < MaxBulkCalls /\ gens = <<>> /\ Caller
    \/ Completion
    \/ Len(gens) < MaxBulkCalls /\ calls = <<>> /\ SummaryCaller
    \/ SummaryCompletion

FacadeSpec == Init /\ [][FacadeNext]_vars

\* The request queue under callers that call at any time: the clock stands
\* still and nothing touches the stored copy.
QueueNext ==
    \/ Len(calls) < MaxCalls /\ Caller
    \/ Completion
    \/ PollFire

QueueSpec == Init /\ [][QueueNext]_vars

\* A started fetch ends: the underlying request returns or fails, or the
\* timeout timer fires.
FetchEnds(r) ==
    /\ r \in 1..Len(reqs)
    /\ \/ \E body \in Bodies(reqs[r].url) : NetReturn(r, body)
       \/ NetFail(r)
       \/ TimeoutFire(r)

\* Timers fire and started fetches end.
QueueFairness ==
    /\ WF_vars(PollFire)
    /\ \A r \in 1..(2 * MaxCalls) : WF_vars(FetchEnds(r))

QueueFairSpec == QueueSpec /\ QueueFairness

\* Started fetches and generations end, time passes while a timer waits, and
\* a timer that is due fires.
DebounceFairness ==
    /\ \A r \in 1..(2 * MaxBulkCalls) : WF_vars(FetchEnds(r))
    /\ WF_vars(SummaryCompletion)
    /\ WF_vars(DebounceTick)
    /\ WF_vars(\E due \in saveTimers, setItemOk \in BOOLEAN : SaveTimerFire(due, setItemOk))
    /\ WF_vars(\E due \in summarySaveTimers, setItemOk \in BOOLEAN :
                   SummarySaveTimerFire(due, setItemOk))

DebounceFairSpec == DebounceSpec /\ DebounceFairness

\* =============================================================== properties
\* The requests whose underlying request is in flight.
UnderlyingRunning == {r \in 1..Len(reqs) : reqs[r].net = "running"}

\* The requests taken from the waiting list whose caller still waits.
DequeuedUnsettled ==
    {r \in 1..Len(reqs) :
        (\E i \in 1..Len(started) : started[i] = r) /\ reqs[r].caller = "pending"}

\* C1: with more than two requests queued at once, never more than two
\* underlying requests are in flight, a request counting from its dequeue to
\* the return or failure of the underlying request itself.
C1_AtMostTwoUnderlyingFetches ==
    Cardinality(UnderlyingRunning) <= MAX_CONCURRENT_REQUESTS

\* C2: the active-request counter is between 0 and 2 and equals the number of
\* dequeued requests whose caller promise is not settled.
C2_ActiveCounter ==
    /\ activeRequests \in 0..MAX_CONCURRENT_REQUESTS
    /\ activeRequests = Cardinality(DequeuedUnsettled)

\* Two requests in flight, one waiting, one settled.
C2_Witness ==
    /\ activeRequests = MAX_CONCURRENT_REQUESTS
    /\ Len(requestQueue) > 0
    /\ \E r \in 1..Len(reqs) : reqs[r].caller # "pending"

\* C3: when timers fire and started fetches end, every queued request is
\* settled in the end, and the waiting list ends empty with the processing
\* flag cleared.
\* (A settled promise stays settled and the callers call finitely often, so
\* "every request is settled at some time" is "from some time on, all are".)
C3_EveryRequestSettles ==
    <>[](/\ requestQueue = <<>>
         /\ ~processingQueue
         /\ \A r \in 1..Len(reqs) : reqs[r].caller # "pending")

\* A request pushed while the drain loop slept has been served, and the loop
\* has left.
C3_Witness ==
    /\ requestQueue = <<>>
    /\ ~processingQueue
    /\ \A r \in 1..Len(reqs) : reqs[r].caller # "pending"
    /\ \E r \in 1..Len(reqs) : reqs[r].queuedBehind
    /\ \E r \in 1..Len(reqs) : reqs[r].fwt = "rejected" /\ reqs[r].net = "running"

\* C4: requests are dequeued in the order they were queued (request numbers
\* are given in queueing order); the order of completion is free.
C4_FifoDequeue ==
    /\ started = [i \in 1..Len(started) |-> i]
    /\ requestQueue = [i \in 1..Len(requestQueue) |-> Len(started) + i]

\* Three requests dequeued, the second settled before the first.
C4_Witness ==
    /\ Len(started) >= 3
    /\ reqs[1].caller = "pending"
    /\ reqs[2].caller # "pending"

\* The step is the timeout of request r: its timer goes off while the
\* underlying request stays in flight.
TimeoutStep(r) ==
    reqs[r].timer /\ ~reqs'[r].timer /\ reqs'[r].net = "running"

\* The step is the late end of the underlying request of r, after its timeout.
LateStep(r) ==
    reqs[r].net = "running" /\ ~reqs[r].timer /\ reqs'[r].net = "done"

\* What the program keeps of facade call c (without the bookkeeping).
CallView(callSeq, c) ==
    <<callSeq[c].pc, callSeq[c].result, callSeq[c].error>>

\* C5: a timeout rejects the promise of its request only and releases one slot;
\* every other request and caller is as before; the late response changes
\* nothing but the underlying request; no promise is settled twice and no slot
\* released twice.
C5_TimeoutIsolated ==
    [][/\ \A r \in 1..Len(reqs) : TimeoutStep(r) =>
              /\ reqs[r].caller = "pending"
              /\ reqs'[r].caller = "rejected"
              /\ activeRequests' = activeRequests - 1
              /\ requestQueue' = requestQueue
              /\ Len(reqs') = Len(reqs)
              /\ \A q \in 1..Len(reqs) : q # r => reqs'[q] = reqs[q]
              /\ \A c \in 1..Len(calls) :
                     c # reqs[r].call => CallView(calls', c) = CallView(calls, c)
       /\ \A r \in 1..Len(reqs) : LateStep(r) =>
              /\ reqs' = [reqs EXCEPT ![r].net = "done"]
              /\ activeRequests' = activeRequests
              /\ requestQueue' = requestQueue
              /\ calls' = calls
              /\ videoCache' = videoCache
       /\ \A r \in 1..Len(reqs') :
              /\ reqs'[r].settles <= 1
              /\ reqs'[r].releases <= 1
              /\ (reqs'[r].caller # "pending") <=> (reqs'[r].settles = 1)]_vars

\* A request timed out and its response came late, while another request that
\* was in flight with it was resolved.
C5_Witness ==
    \E r, q \in 1..Len(reqs) :
        /\ r # q
        /\ reqs[r].fwt = "rejected" /\ reqs[r].net = "done" /\ reqs[r].settles = 1
        /\ reqs[q].caller = "resolved"
        /\ activeRequests = 0

\* The step starts a facade call; NewCallNo is its number.
NewCallNo == Len(calls) + 1
CallStarts == Len(calls') = Len(calls) + 1

\* Call c1 is a transcript call that has resolved, and the cache entry that
\* holds its result has been neither purged nor overwritten and is no older
\* than the expiry window.
EntryStands(c1) ==
    /\ calls[c1].kind = "transcript"
    /\ calls[c1].pc = "resolved"
    /\ calls[c1].intact
    /\ now - calls[c1].wroteAt <= CACHE_EXPIRY_MS

\* The requests queued for the page of url on behalf of one of callNos.
PageFetches(reqSeq, callNos, url) ==
    {r \in 1..Len(reqSeq) : reqSeq[r].call \in callNos /\ reqSeq[r].url = <<url>>}

\* C6: a fetchTranscript call that follows a resolved one for the same URL and
\* language, within the expiry window and with no purge in between, queues no
\* request and returns a result equal to the first; the page was fetched once.
C6_SecondCallServedFromCache ==
    [][\A c1 \in 1..Len(calls) :
          (/\ CallStarts
           /\ calls'[NewCallNo].kind = "transcript"
           /\ calls'[NewCallNo].url = calls[c1].url
           /\ calls'[NewCallNo].langCode = calls[c1].langCode
           /\ EntryStands(c1))
          => /\ calls'[NewCallNo].pc = "resolved"
             /\ calls'[NewCallNo].result = calls[c1].result
             /\ reqs' = reqs
             /\ requestQueue' = requestQueue
             /\ activeRequests' = activeRequests
             /\ Cardinality(PageFetches(reqs', {c1, NewCallNo}, calls[c1].url))
                    = IF calls[c1].fromCache THEN 0 ELSE 1]_vars

\* A transcript with lines was fetched, and a second call, started when the
\* entry was exactly as old as the expiry window, got it from the cache.
C6_Witness ==
    \E c1, c2 \in 1..Len(calls) :
        /\ c1 < c2
        /\ calls[c1].kind = "transcript" /\ calls[c2].kind = "transcript"
        /\ calls[c1].url = calls[c2].url /\ calls[c1].langCode = calls[c2].langCode
        /\ calls[c1].pc = "resolved" /\ ~calls[c1].fromCache
        /\ calls[c1].result.lines # <<>>
        /\ calls[c2].pc = "resolved" /\ calls[c2].fromCache
        /\ calls[c2].enqueued = 0
        /\ calls[c2].result = calls[c1].result
        /\ calls[c2].startedAt = calls[c1].wroteAt + CACHE_EXPIRY_MS

\* Request r is the page fetch a transcript call waits for, not yet settled.
TranscriptPagePending(r) ==
    /\ calls[reqs[r].call].kind = "transcript"
    /\ calls[reqs[r].call].pc = "awaitPage"
    /\ reqs[r].fwt = "pending"

\* The table holds data under key, written at time t.
Holds(cache, key, data, t) ==
    \E i \in 1..Len(cache) :
        cache[i].key = key /\ cache[i].data = data /\ cache[i].timestamp = t

\* C7: a page with an empty caption-track list makes fetchTranscript resolve
\* with no lines and store that result under transcript_{id}_{lang}; a later
\* call for the same id and language gets the stored result and queues nothing.
C7_NoCaptionsResolvesAndCaches ==
    [][/\ \A r \in 1..Len(reqs) :
              (TranscriptPagePending(r) /\ NetReturn(r, PageNoTracks))
              => LET c == reqs[r].call
                 IN  /\ calls'[c].pc = "resolved"
                     /\ calls'[c].result.lines = <<>>
                     /\ Holds(videoCache',
                              TranscriptKey(calls[c].videoId, calls[c].langCode),
                              calls'[c].result, now)
       /\ \A c1 \in 1..Len(calls) :
              (/\ CallStarts
               /\ calls'[NewCallNo].kind = "transcript"
               /\ extractMatch(calls'[NewCallNo].url) = calls[c1].videoId
               /\ calls'[NewCallNo].langCode = calls[c1].langCode
               /\ EntryStands(c1)
               /\ calls[c1].result.lines = <<>>)
              => /\ calls'[NewCallNo].pc = "resolved"
                 /\ calls'[NewCallNo].result = calls[c1].result
                 /\ calls'[NewCallNo].result.lines = <<>>
                 /\ reqs' = reqs
                 /\ requestQueue' = requestQueue]_vars

\* A transcript call fetched the page only and resolved with no lines, and a
\* later call for the same id and language got that result from the cache.
C7_Witness ==
    \E c1, c2 \in 1..Len(calls) :
        /\ c1 < c2
        /\ calls[c1].kind = "transcript" /\ calls[c2].kind = "transcript"
        /\ calls[c1].videoId = calls[c2].videoId
        /\ calls[c1].langCode = calls[c2].langCode
        /\ calls[c1].pc = "resolved" /\ ~calls[c1].fromCache
        /\ calls[c1].enqueued = 1
        /\ calls[c1].result.lines = <<>>
        /\ calls[c2].pc = "resolved" /\ calls[c2].fromCache
        /\ calls[c2].enqueued = 0
        /\ calls[c2].result = calls[c1].result

\* C8: a page without the player-response marker, or whose player data does
\* not parse, makes fetchTranscript reject with a wrapped error and write no
\* cache entry.
C8_PageStructureErrorRejects ==
    [][\A r \in 1..Len(reqs) : \A page \in {PageNoMarker, PageBadJson} :
          (TranscriptPagePending(r) /\ NetReturn(r, page))
          => /\ calls'[reqs[r].call].pc = "rejected"
             /\ calls'[reqs[r].call].error =
                    TranscriptPrefix \o extractCaptions(page, calls[reqs[r].call].langCode).message
             /\ videoCache' = videoCache]_vars

\* Request r is a fetch a transcript call waits for (the page or the caption
\* payload), not yet settled.
TranscriptFetchPending(r) ==
    /\ calls[reqs[r].call].kind = "transcript"
    /\ calls[reqs[r].call].pc \in {"awaitPage", "awaitCaptions"}
    /\ reqs[r].fwt = "pending"

\* C9: a network failure or a timeout of a fetch made for fetchTranscript (the
\* page or the caption payload) makes the call reject with the wrapped original
\* message and writes no cache entry.
C9_NetworkFailureRejects ==
    [][\A r \in 1..Len(reqs) :
          /\ (TranscriptFetchPending(r) /\ NetFail(r))
             => /\ calls'[reqs[r].call].pc = "rejected"
                /\ calls'[reqs[r].call].error = TranscriptPrefix \o NetworkError
                /\ videoCache' = videoCache
          /\ (TranscriptFetchPending(r) /\ TimeoutFire(r))
             => /\ calls'[reqs[r].call].pc = "rejected"
                /\ calls'[reqs[r].call].error =
                       TranscriptPrefix \o TimeoutError(reqs[r].timeoutMs)
                /\ videoCache' = videoCache]_vars

InvalidUrlError(kind) ==
    (IF kind = "transcript" THEN TranscriptPrefix ELSE MetadataPrefix)
        \o <<"Invalid YouTube URL">>

\* C10: a facade call whose URL yields no video identifier rejects at once:
\* nothing is queued, no fetch is started, and the cache table, the save timer
\* and the stored copy are as before.
C10_InvalidUrlFailsFast ==
    [][(CallStarts /\ VIDEO_ID_REGEX(calls'[NewCallNo].url) = <<>>)
       => /\ calls'[NewCallNo].pc = "rejected"
          /\ calls'[NewCallNo].error = InvalidUrlError(calls'[NewCallNo].kind)
          /\ UNCHANGED <<reqs, requestQueue, processingQueue, activeRequests,
                         pollTimer, started>>
          /\ UNCHANGED <<videoCache, saveTimeout, saveTimers, storage>>]_vars

\* Both facade calls were made with a URL that yields no identifier while the
\* table held an entry past its expiry and a save was pending: the entry and
\* the timer are still there.
C10_Witness ==
    /\ \E c \in 1..Len(calls) :
           calls[c].kind = "transcript" /\ calls[c].error = InvalidUrlError("transcript")
    /\ \E c \in 1..Len(calls) :
           calls[c].kind = "metadata" /\ calls[c].error = InvalidUrlError("metadata")
    /\ \E i \in 1..Len(videoCache) : IsExpired(videoCache[i], now)
    /\ saveTimeout # NoTimer
    /\ reqs # <<>>

\* The entries of cache that are not expired at time t.
FreshVideo(cache, t) == {i \in 1..Len(cache) : ~IsExpired(cache[i], t)}
FreshSummary(cache, t) == {i \in 1..Len(cache) : ~summaryIsExpired(cache[i], t)}

\* after holds bound entries, all of them entries of before, and no entry of
\* before that is missing from after was written later than one that is kept.
TrimmedTo(before, after, bound) ==
    /\ Len(after) = bound
    /\ \A j \in 1..Len(after) : \E i \in 1..Len(before) : before[i] = after[j]
    /\ \A i \in 1..Len(before) :
           (\A j \in 1..Len(after) : after[j] # before[i])
           => \A j \in 1..Len(after) : before[i].timestamp <= after[j].timestamp

\* C11: a cleanup pass over a table that holds more entries within the expiry
\* window than its bound (100 video entries, 50 summaries) leaves exactly the
\* bound, and no removed entry is newer than a surviving one, whatever the
\* insertion order.
C11_CleanupTrimsOldest ==
    [][/\ (/\ Len(videoCache) > MAX_CACHE_ENTRIES
           /\ Cardinality(FreshVideo(videoCache, now)) > MAX_CACHE_ENTRIES
           /\ calls' = calls /\ reqs' = reqs /\ now' = now
           /\ PeriodicClean)
          => TrimmedTo(videoCache, videoCache', MAX_CACHE_ENTRIES)
       /\ (/\ Len(summaryCache) > SUMMARY_MAX_CACHE_ENTRIES
           /\ Cardinality(FreshSummary(summaryCache, now)) > SUMMARY_MAX_CACHE_ENTRIES
           /\ gens' = gens /\ now' = now
           /\ SummaryPeriodicClean)
          => TrimmedTo(summaryCache, summaryCache', SUMMARY_MAX_CACHE_ENTRIES)]_vars

\* A full table whose oldest entries were not the first inserted took two
\* more results, and cleanup has brought it back to its bound: the two
\* results written last are in it.
C11_Witness ==
    \/ /\ Len(videoCache) = MAX_CACHE_ENTRIES
       /\ videoCache[1].timestamp > videoCache[2].timestamp
       /\ Cardinality({c \in 1..Len(calls) :
              /\ calls[c].pc = "resolved"
              /\ \E i \in 1..Len(videoCache) : videoCache[i].key = calls[c].cacheKey}) = 2
    \/ /\ Len(summaryCache) = SUMMARY_MAX_CACHE_ENTRIES
       /\ summaryCache[1].timestamp > summaryCache[2].timestamp
       /\ Cardinality({g \in 1..Len(gens) :
              /\ gens[g].pc = "resolved"
              /\ \E i \in 1..Len(summaryCache) : summaryCache[i].key = gens[g].key}) = 2

\* C19: in every reachable state the video-data table holds at most 100
\* entries and the summary table at most 50.
C19_TablesWithinBounds ==
    /\ Len(videoCache) <= MAX_CACHE_ENTRIES
    /\ Len(summaryCache) <= SUMMARY_MAX_CACHE_ENTRIES

\* The step starts a generateMetadataSummary call; NewGenNo is its number.
NewGenNo == Len(gens) + 1
GenStarts == Len(gens') = Len(gens) + 1

\* C12: an entry written at T that has not been overwritten, trimmed or purged
\* is returned, with no fetch and no generation, by a lookup made before
\* T + window, and is not returned by a lookup made after T + window
\* (fetchTranscript and fetchVideoMetadata over the 30-minute window,
\* getCachedSummary over the 24-hour window).
C12_ExpiryWindow ==
    [][/\ \A c1 \in 1..Len(calls) :
              (/\ CallStarts
               /\ calls'[NewCallNo].cacheKey = calls[c1].cacheKey
               /\ calls[c1].pc = "resolved"
               /\ calls[c1].intact)
              => /\ now < calls[c1].wroteAt + CACHE_EXPIRY_MS
                    => /\ calls'[NewCallNo].pc = "resolved"
                       /\ calls'[NewCallNo].fromCache
                       /\ calls'[NewCallNo].result = calls[c1].result
                       /\ reqs' = reqs
                 /\ now > calls[c1].wroteAt + CACHE_EXPIRY_MS
                    => /\ ~calls'[NewCallNo].fromCache
                       /\ calls'[NewCallNo].pc = "awaitPage"
                       /\ CacheIndex(videoCache', calls[c1].cacheKey) = 0
       /\ \A g1 \in 1..Len(gens) :
              (/\ GenStarts
               /\ gens'[NewGenNo].key = gens[g1].key
               /\ gens[g1].pc = "resolved"
               /\ gens[g1].intact)
              => /\ now < gens[g1].wroteAt + SUMMARY_CACHE_EXPIRY_MS
                    => /\ gens'[NewGenNo].found
                       /\ gens'[NewGenNo].pc = "resolved"
                       /\ gens'[NewGenNo].result = gens[g1].result
                       /\ gens'[NewGenNo].llmCalls = 0
                 /\ now > gens[g1].wroteAt + SUMMARY_CACHE_EXPIRY_MS
                    => /\ ~gens'[NewGenNo].found
                       /\ gens'[NewGenNo].pc = "awaitLLM"]_vars

\* An entry was written, a lookup one millisecond before the end of its
\* window returned it, and a lookup one millisecond after the end missed.
C12_Witness ==
    \/ \E c1, c2, c3 \in 1..Len(calls) :
           /\ calls[c1].pc = "resolved" /\ ~calls[c1].fromCache
           /\ calls[c2].cacheKey = calls[c1].cacheKey
           /\ calls[c3].cacheKey = calls[c1].cacheKey
           /\ calls[c2].startedAt = calls[c1].wroteAt + CACHE_EXPIRY_MS - 1
           /\ calls[c2].fromCache /\ calls[c2].result = calls[c1].result
           /\ calls[c3].startedAt = calls[c1].wroteAt + CACHE_EXPIRY_MS + 1
           /\ ~calls[c3].fromCache /\ calls[c3].enqueued = 1
    \/ \E g1, g2, g3 \in 1..Len(gens) :
           /\ gens[g1].pc = "resolved" /\ gens[g1].llmCalls = 1
           /\ gens[g2].key = gens[g1].key
           /\ gens[g3].key = gens[g1].key
           /\ gens[g2].startedAt = gens[g1].wroteAt + SUMMARY_CACHE_EXPIRY_MS - 1
           /\ gens[g2].found /\ gens[g2].result = gens[g1].result
           /\ gens[g2].llmCalls = 0
           /\ gens[g3].startedAt = gens[g1].wroteAt + SUMMARY_CACHE_EXPIRY_MS + 1
           /\ ~gens[g3].found /\ gens[g3].llmCalls = 1

\* Call c is under way: it waits for its page or for its captions.
InFlight(c) == calls[c].pc \in {"awaitPage", "awaitCaptions"}

\* The positions of the table that hold an entry under key.
EntriesUnder(cache, key) == {i \in 1..Len(cache) : cache[i].key = key}

\* C13: in-flight calls are not de-duplicated. A call that starts while
\* another call for the same key is under way and no entry is stored misses
\* the cache and enqueues a page fetch of its own; and whenever a call writes
\* its result, the key's one entry is that result, whatever an earlier
\* completer had written.
C13_NoInFlightDedup ==
    [][/\ \A c1 \in 1..Len(calls) :
              (/\ CallStarts
               /\ InFlight(c1)
               /\ calls'[NewCallNo].cacheKey = calls[c1].cacheKey
               /\ EntriesUnder(videoCache', calls[c1].cacheKey) = {})
              => /\ ~calls'[NewCallNo].fromCache
                 /\ calls'[NewCallNo].pc = "awaitPage"
                 /\ calls'[c1] = calls[c1]
                 /\ Len(reqs') = Len(reqs) + 1
                 /\ reqs'[Len(reqs')].call = NewCallNo
                 /\ reqs'[Len(reqs')].url = <<calls'[NewCallNo].url>>
                 /\ Cardinality(PageFetches(reqs', {c1}, calls[c1].url)) = 1
       /\ \A c \in 1..Len(calls) :
              (/\ Len(calls') = Len(calls)
               /\ InFlight(c)
               /\ calls'[c].pc = "resolved")
              => /\ Cardinality(EntriesUnder(videoCache', calls[c].cacheKey)) = 1
                 /\ Holds(videoCache', calls[c].cacheKey, calls'[c].result, now)
                 /\ calls'[c].intact
                 /\ \A d \in 1..Len(calls) :
                        (d # c /\ calls[d].cacheKey = calls[c].cacheKey)
                        => ~calls'[d].intact]_vars

\* Two calls for one key were under way together, each fetched the page
\* itself, they completed with different results, and the table holds the
\* result of the one that completed last.
C13_Witness ==
    \E c1, c2 \in 1..Len(calls) :
        /\ c1 # c2
        /\ calls[c1].cacheKey = calls[c2].cacheKey
        /\ calls[c1].pc = "resolved" /\ calls[c2].pc = "resolved"
        /\ ~calls[c1].fromCache /\ ~calls[c2].fromCache
        /\ Cardinality(PageFetches(reqs, {c1}, calls[c1].url)) = 1
        /\ Cardinality(PageFetches(reqs, {c2}, calls[c2].url)) = 1
        /\ calls[c1].result # calls[c2].result
        /\ ~calls[c1].intact /\ calls[c2].intact
        /\ \E i \in 1..Len(videoCache) :
               /\ videoCache[i].key = calls[c2].cacheKey
               /\ videoCache[i].data = calls[c2].result
        /\ Cardinality(EntriesUnder(videoCache, calls[c2].cacheKey)) = 1

\* C14: every write of an entry (transcript with lines, minimal result of a
\* video without captions, metadata) schedules the debounced save: the step
\* in which a call stores its result leaves a save timer armed, due five
\* seconds later.
C14_EveryWriteSchedulesSave ==
    [][\A c \in 1..Len(calls) :
          (/\ Len(calls') = Len(calls)
           /\ InFlight(c)
           /\ calls'[c].pc = "resolved"
           /\ Holds(videoCache', calls[c].cacheKey, calls'[c].result, now))
          => /\ saveTimeout' = now + SAVE_DEBOUNCE_MS
             /\ saveTimeout' \in saveTimers']_vars

\* C16: a failure of the durable store never propagates out of a cache
\* operation or facade call: no operation of the service ends by throwing
\* the store's exception.
C16_StoreFailureNeverPropagates == ~raised

\* The entries of a table, as a set.
Entries(cache) == {cache[i] : i \in 1..Len(cache)}

\* C17: a load that fails (the store read throws, or the stored text does not
\* parse) leaves the process-wide in-memory table as it was.
C17_FailedLoadKeepsTable ==
    [][/\ (\/ NewYouTubeService(FALSE)
           \/ storage.present /\ ~storage.parses /\ NewYouTubeService(TRUE))
          => Entries(videoCache) \subseteq Entries(videoCache')
       /\ (\/ NewVideoAnalysisService(FALSE)
           \/ summaryStorage.present /\ ~summaryStorage.parses
              /\ NewVideoAnalysisService(TRUE))
          => Entries(summaryCache) \subseteq Entries(summaryCache')]_vars

\* What a load may add to a table: after is before plus stored entries that
\* have a timestamp and are younger than window at time t; a stored entry
\* that is expired or has no timestamp is in after only if it was in before.
RestoredOnlyFresh(before, after, stored, t, window) ==
    /\ \A e \in Entries(after) \ Entries(before) :
           /\ e \in Entries(stored)
           /\ e.timestamp # 0
           /\ t - e.timestamp < window
    /\ \A e \in Entries(stored) :
           (e.timestamp = 0 \/ t - e.timestamp >= window)
           => (e \in Entries(after) => e \in Entries(before))

\* C18: the load at construction restores a persisted entry only if its age at
\* load time is less than the table's expiry window (30 minutes for video
\* data, 24 hours for summaries); a persisted entry that is expired or has no
\* timestamp is not in memory as a result of the load.
C18_LoadRestoresOnlyFresh ==
    [][/\ (\E getItemOk \in BOOLEAN : NewYouTubeService(getItemOk))
          => RestoredOnlyFresh(videoCache, videoCache', storage.value, now,
                               CACHE_EXPIRY_MS)
       /\ (\E getItemOk \in BOOLEAN : NewVideoAnalysisService(getItemOk))
          => RestoredOnlyFresh(summaryCache, summaryCache', summaryStorage.value, now,
                               SUMMARY_CACHE_EXPIRY_MS)]_vars

\* Table cache is the result of a load of stored: one stored entry a
\* millisecond younger than the window is in it, and the stored entries
\* without timestamp, exactly as old as the window and older are not.
LoadedFrom(cache, stored, t, window) ==
    /\ \E e \in Entries(stored) :
           e.timestamp = t - window + 1 /\ e \in Entries(cache)
    /\ \E e \in Entries(stored) :
           e.timestamp = 0 /\ CacheIndex(cache, e.key) = 0
    /\ \E e \in Entries(stored) :
           t - e.timestamp >= window /\ e.timestamp # 0
           /\ CacheIndex(cache, e.key) = 0

C18_Witness ==
    \/ LoadedFrom(videoCache, storage.value, now, CACHE_EXPIRY_MS)
    \/ LoadedFrom(summaryCache, summaryStorage.value, now, SUMMARY_CACHE_EXPIRY_MS)

\* The times of the writes that called debouncedSaveCache: the metadata
\* results and the transcripts with lines, and the generated summaries.
ArmTimes ==
    {calls[c].wroteAt : c \in {d \in 1..Len(calls) :
        /\ calls[d].pc = "resolved" /\ ~calls[d].fromCache
        /\ (calls[d].kind = "metadata" \/ calls[d].result.lines # <<>>)}}
SummaryArmTimes ==
    {gens[g].wroteAt : g \in {h \in 1..Len(gens) :
        gens[h].pc = "resolved" /\ gens[h].llmCalls = 1}}

\* The live timers of an instance are its pending timer, if it has one.
OnePending(handle, live) == live = IF handle = NoTimer THEN {} ELSE {handle}

\* C15: debounced persistence coalesces writes. An instance has at most one
\* save timer pending; a call of debouncedSaveCache cancels the pending timer
\* and arms a new one, due five seconds later; a debounced save runs only
\* when five seconds have passed since the last such call and leaves no timer
\* pending, so that calls less than five seconds apart get one save, after
\* the last of them; and a pending timer leads to a save.
C15_DebounceCoalesces ==
    /\ [](/\ OnePending(saveTimeout, saveTimers)
          /\ OnePending(summarySaveTimeout, summarySaveTimers))
    /\ [][/\ \A c \in 1..Len(calls) :
                 (/\ Len(calls') = Len(calls)
                  /\ InFlight(c)
                  /\ calls'[c].pc = "resolved"
                  /\ (calls[c].kind = "metadata" \/ calls'[c].result.lines # <<>>))
                 => /\ saveTimeout' = now + SAVE_DEBOUNCE_MS
                    /\ saveTimers' = {now + SAVE_DEBOUNCE_MS}
          /\ \A g \in 1..Len(gens) :
                 (/\ Len(gens') = Len(gens)
                  /\ gens[g].pc = "awaitLLM"
                  /\ gens'[g].pc = "resolved")
                 => /\ summarySaveTimeout' = now + SAVE_DEBOUNCE_MS
                    /\ summarySaveTimers' = {now + SAVE_DEBOUNCE_MS}
          /\ (\E due \in saveTimers, setItemOk \in BOOLEAN : SaveTimerFire(due, setItemOk))
             => /\ \A t \in ArmTimes : now >= t + SAVE_DEBOUNCE_MS
                /\ saveTimers' = {} /\ saveTimeout' = NoTimer
          /\ (\E due \in summarySaveTimers, setItemOk \in BOOLEAN :
                  SummarySaveTimerFire(due, setItemOk))
             => /\ \A t \in SummaryArmTimes : now >= t + SAVE_DEBOUNCE_MS
                /\ summarySaveTimers' = {} /\ summarySaveTimeout' = NoTimer]_vars
    /\ (saveTimers # {}) ~> (saveTimers = {})
    /\ (summarySaveTimers # {}) ~> (summarySaveTimers = {})

\* Two writes less than five seconds apart called debouncedSaveCache, the
\* save has run five seconds or more after the second, the stored copy holds
\* both entries, and no timer is pending.
C15_Witness ==
    \/ \E c1, c2 \in 1..Len(calls) :
           /\ {calls[c1].wroteAt, calls[c2].wroteAt} \subseteq ArmTimes
           /\ ~calls[c1].fromCache /\ ~calls[c2].fromCache
           /\ calls[c1].wroteAt < calls[c2].wroteAt
           /\ calls[c2].wroteAt < calls[c1].wroteAt + SAVE_DEBOUNCE_MS
           /\ now >= calls[c2].wroteAt + SAVE_DEBOUNCE_MS
           /\ saveTimers = {} /\ saveTimeout = NoTimer
           /\ Holds(storage.value, calls[c1].cacheKey, calls[c1].result, calls[c1].wroteAt)
           /\ Holds(storage.value, calls[c2].cacheKey, calls[c2].result, calls[c2].wroteAt)
    \/ \E g1, g2 \in 1..Len(gens) :
           /\ {gens[g1].wroteAt, gens[g2].wroteAt} \subseteq SummaryArmTimes
           /\ gens[g1].llmCalls = 1 /\ gens[g2].llmCalls = 1
           /\ gens[g1].wroteAt < gens[g2].wroteAt
           /\ gens[g2].wroteAt < gens[g1].wroteAt + SAVE_DEBOUNCE_MS
           /\ now >= gens[g2].wroteAt + SAVE_DEBOUNCE_MS
           /\ summarySaveTimers = {} /\ summarySaveTimeout = NoTimer
           /\ Holds(summaryStorage.value, gens[g1].key, gens[g1].result, gens[g1].wroteAt)
           /\ Holds(summaryStorage.value, gens[g2].key, gens[g2].result, gens[g2].wroteAt)

\* The track the selection policy names for language langCode: the first
\* whose code equals it, else the first whose code contains it, else the
\* first of the list; 0 for an empty list.
PolicyTrack(captionTracks, langCode) ==
    LET positions == 1..Len(captionTracks)
        Equal == {i \in positions : captionTracks[i].languageCode = langCode}
        Containing == {i \in positions :
                          Includes(captionTracks[i].languageCode, langCode)}
    IN  IF Equal # {} THEN CHOOSE i \in Equal : \A j \in Equal : i <= j
        ELSE IF Containing # {}
        THEN CHOOSE i \in Containing : \A j \in Containing : i <= j
        ELSE IF captionTracks # <<>> THEN 1 ELSE 0

\* C20: when the watch page of a fetchTranscript call for language L arrives,
\* the caption fetch that is enqueued is for the first track whose language
\* code equals L, else for the first track whose code contains L, else for
\* the first track; for an empty track list extractCaptions fails with 'No
\* captions available' and no caption fetch is enqueued.
C20_TrackSelection ==
    [][\A r \in 1..Len(reqs), captionTracks \in TrackLists :
          (/\ reqs[r].url = <<UrlWatchA>>
           /\ calls[reqs[r].call].pc = "awaitPage"
           /\ NetReturn(r, TrackPage(captionTracks)))
          => LET c == reqs[r].call
                 i == PolicyTrack(captionTracks, calls[c].langCode)
             IN  IF i # 0
                 THEN /\ calls'[c].pc = "awaitCaptions"
                      /\ Len(reqs') = Len(reqs) + 1
                      /\ reqs'[Len(reqs')].call = c
                      /\ reqs'[Len(reqs')].url
                             = <<"https://www.youtube.com">> \o captionTracks[i].baseUrl
                 ELSE /\ extractCaptions(TrackPage(captionTracks), calls[c].langCode)
                             = [throws |-> TRUE, message |-> <<"No captions available">>,
                                url |-> <<>>]
                      /\ reqs' = [reqs EXCEPT ![r] = reqs'[r]]
                      /\ requestQueue' = <<>>
                      /\ calls'[c].pc = "resolved"
                      /\ calls'[c].result.lines = <<>>]_vars

\* A call for "en" got a page whose first track is "en-US" and whose second
\* is "en", and the caption fetch it queued is for the second.
C20_Witness ==
    \E c \in 1..Len(calls), r \in 1..Len(reqs) :
        /\ calls[c].langCode = LangEn
        /\ calls[c].pc = "awaitCaptions"
        /\ reqs[r].call = c
        /\ reqs[r].url = <<"https://www.youtube.com", "/api/timedtext?lang=">> \o LangEn
                         \o <<"&n=", "2", "&of=">> \o LangEnUS \o <<",">> \o LangEn

\* The attribute text is a number.
IsNumeric(text) == text \in {"0", "1", "2"}

\* C21: when the captions document of a call arrives, the transcript has one
\* line per cue, in order, and a cue whose dur or start attribute is missing
\* or not a number gives a line with that field equal to 0.
C21_MalformedCueDefaultsToZero ==
    [][\A r \in 1..Len(reqs), captionsXML \in CueXmls :
          (/\ reqs[r].url # <<UrlWatchA>>
           /\ calls[reqs[r].call].pc = "awaitCaptions"
           /\ NetReturn(r, captionsXML))
          => LET lines == calls'[reqs[r].call].result.lines
             IN  /\ Len(lines) = Len(captionsXML)
                 /\ \A i \in 1..Len(captionsXML) :
                        /\ lines[i].text = captionsXML[i].text
                        /\ ~IsNumeric(captionsXML[i].dur) => lines[i].duration = 0
                        /\ ~IsNumeric(captionsXML[i].start) => lines[i].offset = 0]_vars

\* Request r is the page fetch a metadata call waits for.
MetadataPagePending(r) ==
    /\ calls[reqs[r].call].kind = "metadata"
    /\ calls[reqs[r].call].pc = "awaitPage"

\* C22: in fetchVideoMetadata a title or author that the video-details object
\* of the embedded JSON provides is the one in the result; the value of the
\* regex lookup is used only when the JSON does not provide the field.
C22_JsonValuesPreferred ==
    [][\A r \in 1..Len(reqs), body \in Pages :
          (/\ MetadataPagePending(r)
           /\ body.marker /\ body.jsonOk
           /\ NetReturn(r, body))
          => LET metadata == calls'[reqs[r].call].result
             IN  /\ metadata.title
                        = decodeHTML(OrElse(body.videoDetails.title,
                                            OrElse(body.title, "Unknown")))
                 /\ metadata.author
                        = decodeHTML(OrElse(body.videoDetails.author,
                                            OrElse(body.author, "Unknown")))]_vars

\* The metadata fetchVideoMetadata builds from the regex lookups alone.
DegradedMetadata(call, body) ==
    [title |-> decodeHTML(OrElse(body.title, "Unknown")),
     description |-> "",
     author |-> decodeHTML(OrElse(body.author, "Unknown")),
     channelUrl |-> ChannelUrl(body.channelId),
     tags |-> <<>>,
     publishDate |-> "",
     videoId |-> call.videoId,
     url |-> call.url]

\* C23: in fetchVideoMetadata a page without the player-response marker makes
\* the call reject and leaves the table as it was; a page whose marker is
\* followed by text that does not parse makes the call resolve with the
\* metadata of the regex lookups (description and tags empty), which is
\* stored and is what a later call within the expiry window gets, with no
\* fetch.
C23_MetadataMarkerAndBadJson ==
    [][/\ \A r \in 1..Len(reqs), body \in Pages :
              (/\ MetadataPagePending(r)
               /\ ~(body.marker /\ body.jsonOk)
               /\ NetReturn(r, body))
              => LET c == reqs[r].call
                 IN  IF ~body.marker
                     THEN /\ calls'[c].pc = "rejected"
                          /\ calls'[c].error
                                 = MetadataPrefix \o <<"Failed to find player data">>
                          /\ videoCache' = videoCache
                          /\ CacheIndex(videoCache', calls[c].cacheKey) = 0
                     ELSE /\ calls'[c].pc = "resolved"
                          /\ calls'[c].result = DegradedMetadata(calls[c], body)
                          /\ Holds(videoCache', calls[c].cacheKey,
                                   DegradedMetadata(calls[c], body), now)
       /\ \A c1 \in 1..Len(calls) :
              (/\ CallStarts
               /\ calls[c1].kind = "metadata"
               /\ calls'[NewCallNo].cacheKey = calls[c1].cacheKey
               /\ calls[c1].pc = "resolved" /\ calls[c1].intact
               /\ now < calls[c1].wroteAt + CACHE_EXPIRY_MS)
              => /\ calls'[NewCallNo].pc = "resolved"
                 /\ calls'[NewCallNo].fromCache
                 /\ calls'[NewCallNo].result = calls[c1].result
                 /\ reqs' = reqs]_vars

\* A metadata call got a page whose JSON does not parse and resolved with
\* the regex metadata; a second call was served that result from the cache;
\* after the entry expired a third call got a page without the marker and
\* rejected, and the table has no entry for the video.
C23_Witness ==
    \E c1, c2, c3 \in 1..Len(calls) :
        /\ calls[c1].kind = "metadata" /\ calls[c2].kind = "metadata"
        /\ calls[c3].kind = "metadata"
        /\ calls[c1].pc = "resolved" /\ ~calls[c1].fromCache
        /\ calls[c1].result = DegradedMetadata(calls[c1], PageBadJson)
        /\ calls[c2].pc = "resolved" /\ calls[c2].fromCache
        /\ calls[c2].enqueued = 0
        /\ calls[c2].result = calls[c1].result
        /\ calls[c3].pc = "rejected"
        /\ calls[c3].error = MetadataPrefix \o <<"Failed to find player data">>
        /\ calls[c3].cacheKey = calls[c1].cacheKey
        /\ CacheIndex(videoCache, calls[c3].cacheKey) = 0

\* How many times request r occurs in a list of requests.
Occurrences(list, r) == Cardinality({i \in 1..Len(list) : list[i] = r})

\* C24: the queue never retries. A request is in the waiting list once, not
\* yet started, or it has left the list and its underlying fetch was started
\* once; a request that has left the waiting list does not come back to it,
\* and an underlying fetch that timed out or ended is not started again.
C24_NoRetry ==
    /\ [](\A r \in 1..Len(reqs) :
              IF reqs[r].net = "idle"
              THEN Occurrences(requestQueue, r) = 1 /\ Occurrences(started, r) = 0
              ELSE Occurrences(requestQueue, r) = 0 /\ Occurrences(started, r) = 1)
    /\ [][\A r \in 1..Len(reqs) :
              /\ Occurrences(requestQueue, r) = 0 => Occurrences(requestQueue', r) = 0
              /\ Occurrences(started', r) >= Occurrences(started, r)
              /\ reqs[r].fwt \in {"rejected", "fulfilled"}
                 => /\ reqs'[r].fwt = reqs[r].fwt
                    /\ Occurrences(started', r) = 1
                    /\ reqs[r].net = "done" => reqs'[r].net = "done"]_vars

\* One request timed out and another failed, both callers were told, the
\* waiting list is empty and the loop has ended; each of the two was started
\* once.
C24_Witness ==
    \E r, q \in 1..Len(reqs) :
        /\ reqs[r].fwt = "rejected" /\ reqs[r].net = "running" /\ ~reqs[r].timer
        /\ reqs[q].fwt = "rejected" /\ reqs[q].net = "done"
        /\ reqs[r].caller = "rejected" /\ reqs[q].caller = "rejected"
        /\ Occurrences(started, r) = 1 /\ Occurrences(started, q) = 1
        /\ requestQueue = <<>> /\ ~processingQueue /\ ~pollTimer

\* C25: at most one drain loop runs at a time. Between tasks the processing
\* flag is true exactly while the loop is suspended in its 100 ms sleep, and
\* an enqueue that happens while the flag is true only appends to the waiting
\* list: it starts no fetch, sets no second sleep and leaves the flag true.
C25_OneDrainLoop ==
    /\ [](processingQueue <=> pollTimer)
    /\ [][(processingQueue /\ Len(reqs') > Len(reqs))
          => /\ Len(reqs') = Len(reqs) + 1
             /\ requestQueue' = Append(requestQueue, Len(reqs'))
             /\ reqs'[Len(reqs')].net = "idle"
             /\ reqs'[Len(reqs')].queuedBehind
             /\ started' = started
             /\ processingQueue' /\ pollTimer'
             /\ \A r \in 1..Len(reqs) :
                    reqs[r].net = "idle" => reqs'[r].net = "idle"]_vars

\* A request was enqueued while the flag was true and a slot was free: it
\* waits in the list, behind the sleeping loop, and has not been started.
C25_Witness ==
    /\ processingQueue /\ pollTimer
    /\ activeRequests < MAX_CONCURRENT_REQUESTS
    /\ \E i \in 1..Len(requestQueue) :
           /\ reqs[requestQueue[i]].queuedBehind
           /\ reqs[requestQueue[i]].net = "idle"

\* C26: a facade call that rejects creates no cache entry, and an entry
\* appears in a table only in a step in which a fetchTranscript or
\* fetchVideoMetadata call resolves with it, or a generation succeeds with
\* it.
C26_RejectionWritesNothing ==
    [][/\ \A c \in 1..Len(calls') :
              (calls'[c].pc = "rejected" /\ (c > Len(calls) \/ calls[c].pc # "rejected"))
              => Entries(videoCache') \subseteq Entries(videoCache)
       /\ \A g \in 1..Len(gens) :
              (gens'[g].pc = "rejected" /\ gens[g].pc # "rejected")
              => Entries(summaryCache') \subseteq Entries(summaryCache)
       /\ \A e \in Entries(videoCache') \ Entries(videoCache) :
              \E c \in 1..Len(calls) :
                  /\ InFlight(c)
                  /\ calls'[c].pc = "resolved"
                  /\ e = [key |-> calls[c].cacheKey, data |-> calls'[c].result,
                          timestamp |-> now]
       /\ \A e \in Entries(summaryCache') \ Entries(summaryCache) :
              \E g \in 1..Len(gens) :
                  /\ gens[g].pc = "awaitLLM"
                  /\ gens'[g].pc = "resolved"
                  /\ e = [key |-> gens[g].key, data |-> gens'[g].result,
                          timestamp |-> now]]_vars

\* A call was rejected for an invalid URL and another after its page fetch
\* failed or timed out, and the table is empty; or a generation failed and
\* another succeeded, and the table holds the one summary.
C26_Witness ==
    \/ \E c1, c2 \in 1..Len(calls) :
           /\ calls[c1].pc = "rejected" /\ calls[c1].enqueued = 0
           /\ calls[c2].pc = "rejected" /\ calls[c2].enqueued = 1
           /\ videoCache = <<>>
    \/ \E g1, g2 \in 1..Len(gens) :
           /\ gens[g1].pc = "rejected" /\ gens[g1].llmCalls = 1
           /\ gens[g2].pc = "resolved" /\ gens[g2].llmCalls = 1
           /\ Entries(summaryCache)
                  = {[key |-> gens[g2].key, data |-> gens[g2].result,
                      timestamp |-> gens[g2].wroteAt]}

\* ------------------------------------------------------- getVideoId, plugin
\* (src/src/components/media-frame.tsx, src/src/main.tsx) A URL text is the
\* sequence of its tokens: an optional scheme, the host, the path's slashes
\* and segments, and after "?" the query's keys, "=", values and "&".
MaxPlayers == 1

Schemes == {"https://"}
FrameHosts == {"youtube.com", "www.youtube.com", "YouTube.com", "youtu.be",
               "www.youtu.be", "example.com"}
FramePaths == {<<>>, <<"/", "a1">>, <<"/", "watch">>, <<"/", "a1", "/", "x">>}
FrameQueries == {<<>>, <<"?", "v", "=", "b2">>, <<"?", "v", "=">>,
                 <<"?", "t", "=", "5", "&", "v", "=", "b2">>}
FrameUrls ==
    {scheme \o <<host>> \o path \o query :
        scheme \in {<<>>, <<"https://">>}, host \in FrameHosts,
        path \in FramePaths, query \in FrameQueries}

\* new URL(url) throws on a text without a scheme.
URLParses(url) == Len(url) >= 2 /\ url[1] \in Schemes

\* The URL parser lower-cases the host.
toLowerCase(host) == IF host = "YouTube.com" THEN "youtube.com" ELSE host

\* Where the query starts: the first "?", or one past the end.
QueryStart(url) ==
    IF \E i \in 1..Len(url) : url[i] = "?"
    THEN CHOOSE i \in 1..Len(url) : url[i] = "?" /\ \A k \in 1..(i - 1) : url[k] # "?"
    ELSE Len(url) + 1

\* urlObj.hostname
hostname(url) == toLowerCase(url[2])

\* urlObj.pathname: an absent path is "/".
pathname(url) ==
    IF QueryStart(url) = 3 THEN <<"/">> ELSE SubSeq(url, 3, QueryStart(url) - 1)

\* urlObj.search: "?" and what follows it, empty for a bare "?".
search(url) ==
    IF QueryStart(url) >= Len(url) THEN <<>> ELSE SubSeq(url, QueryStart(url), Len(url))

\* String.prototype.substring(1)
substring1(text) == IF text = <<>> THEN <<>> ELSE Tail(text)

\* new URLSearchParams(search).get(name): the value of the first parameter
\* with that name, <<"null">> when there is none.
SearchParamsGet(query, name) ==
    LET body == substring1(query)
        Starts(i) == i = 1 \/ body[i - 1] = "&"
        Hits == {i \in 1..Len(body) : Starts(i) /\ body[i] = name}
        first == CHOOSE i \in Hits : \A k \in Hits : i <= k
        HasValue(i) == i + 1 <= Len(body) /\ body[i + 1] = "="
        Stops == {k \in (first + 2)..Len(body) : body[k] = "&"}
        stop == IF Stops = {} THEN Len(body) + 1
                ELSE CHOOSE k \in Stops : \A m \in Stops : k <= m
    IN  IF Hits = {} THEN <<"null">>
        ELSE IF HasValue(first) THEN SubSeq(body, first + 2, stop - 1)
        ELSE <<>>

\* A slip: the host is not checked against the accepted ones.
getVideoIdAnyHost(url) ==
    IF ~URLParses(url) THEN <<>>
    ELSE IF hostname(url) \in {"youtu.be", "www.youtu.be"}
         THEN substring1(pathname(url))
         ELSE LET v == SearchParamsGet(search(url), "v")
              IN  IF v = <<"null">> THEN <<>> ELSE v

\* getVideoId(url): the empty text for a URL it does not accept.
getVideoId(url) ==
    IF ~URLParses(url) THEN <<>>
    ELSE IF ~(hostname(url) \in {"youtube.com", "www.youtube.com",
                                 "youtu.be", "www.youtu.be"})
         THEN <<>>
    ELSE IF hostname(url) \in {"youtu.be", "www.youtu.be"}
         THEN substring1(pathname(url))
         ELSE LET v == SearchParamsGet(search(url), "v")
              IN  IF v = <<"null">> THEN <<>> ELSE v

\* closeMiniPlayer(): the root and the container exist exactly while the
\* mini player is active.
closeMiniPlayer ==
    /\ miniPlayerActive
    /\ miniPlayerActive' = FALSE
    /\ activeMiniPlayerId' = <<>>
    /\ notice' = ""
    /\ UNCHANGED <<now, ticks, videoCache, storage, saveTimeout, saveTimers,
                   raised, queueVars, calls, summaryVars, players, summarizeVars>>

\* openMiniPlayer(url): a URL without a video id only raises a notice.
openMiniPlayer(url) ==
    LET videoId == getVideoId(url)
    IN  /\ IF videoId = <<>>
           THEN /\ notice' = "Invalid YouTube URL"
                /\ UNCHANGED <<players, miniPlayerActive, activeMiniPlayerId>>
           ELSE /\ notice' = ""
                /\ players' =
                       IF \E p \in players : p.playerId = videoId
                       THEN players
                       ELSE players \cup {[playerId |-> videoId, mediaLink |-> url]}
                /\ miniPlayerActive' = TRUE
                /\ activeMiniPlayerId' = videoId
        /\ UNCHANGED <<now, ticks, videoCache, storage, saveTimeout, saveTimers,
                       raised, queueVars, calls, summaryVars, summarizeVars>>

PlayerNext ==
    \/ \E url \in FrameUrls :
           /\ \/ Cardinality(players) < MaxPlayers
              \/ getVideoId(url) = <<>>
              \/ \E p \in players : p.playerId = getVideoId(url)
           /\ openMiniPlayer(url)
    \/ closeMiniPlayer

PlayerSpec == Init /\ [][PlayerNext]_vars

ShortLinkHosts == {"youtu.be", "www.youtu.be"}
PrimaryHosts == {"youtube.com", "www.youtube.com"}

\* C27: getVideoId gives, for a parseable URL on the short-link host, the path
\* after its leading slash; on the primary host, the value of the v query
\* parameter (empty when there is none); for any other host or a text that
\* does not parse, the empty text, and no exception. Opening the mini player
\* on a URL makes that identifier the active one, whatever was opened before;
\* with an empty identifier it only shows the invalid-URL notice.
C27_GetVideoId ==
    [][\A url \in FrameUrls :
          LET parses == Len(url) >= 2 /\ url[1] = "https://"
              host == toLowerCase(url[2])
              cut == QueryStart(url)
              vAt == {i \in (cut + 1)..Len(url) :
                          url[i] = "v" /\ url[i - 1] \in {"?", "&"}}
              v == CHOOSE i \in vAt : \A k \in vAt : i <= k
              claimed ==
                  IF parses /\ host \in ShortLinkHosts
                      THEN SubSeq(url, 4, cut - 1)
                  ELSE IF parses /\ host \in PrimaryHosts /\ vAt # {}
                      THEN IF v + 2 <= Len(url) /\ url[v + 1] = "="
                           THEN <<url[v + 2]>> ELSE <<>>
                  ELSE <<>>
          IN  openMiniPlayer(url) =>
                  /\ ~raised'
                  /\ IF claimed = <<>>
                     THEN /\ notice' = "Invalid YouTube URL"
                          /\ UNCHANGED <<players, miniPlayerActive,
                                         activeMiniPlayerId>>
                     ELSE /\ notice' = ""
                          /\ miniPlayerActive'
                          /\ activeMiniPlayerId' = claimed
                          /\ \E p \in players' : p.playerId = claimed]_vars

\* Reached: a player opened from a primary-host link that also has a path,
\* under its v parameter, still the active one after a URL without an
\* identifier was refused.
C27_Witness ==
    /\ \E p \in players :
           /\ hostname(p.mediaLink) \in PrimaryHosts
           /\ pathname(p.mediaLink) = <<"/", "a1">>
           /\ p.playerId = <<"b2">>
           /\ activeMiniPlayerId = <<"b2">>
    /\ miniPlayerActive
    /\ notice = "Invalid YouTube URL"

\* -------------------------------------------------------- error wrapping
\* The prefix the catch of a facade operation puts before error.message.
FacadePrefix(kind) ==
    IF kind = "transcript" THEN TranscriptPrefix ELSE MetadataPrefix

\* The messages of the errors thrown below the facade's catch.
OriginalMessages ==
    {<<"Invalid YouTube URL">>, NetworkError, TimeoutError(DEFAULT_TIMEOUT_MS),
     <<"Failed to find player data">>}

\* C28: every rejected fetchTranscript carries the transcript prefix followed
\* by the original message, every rejected fetchVideoMetadata the metadata
\* prefix followed by the original message: the message of the failed or
\* timed-out page fetch, of the URL check, of the missing player data.
C28_RejectionsAreWrapped ==
    /\ [](\A c \in 1..Len(calls) :
              calls[c].pc = "rejected"
              => \E m \in OriginalMessages :
                     calls[c].error = FacadePrefix(calls[c].kind) \o m)
    /\ [][/\ \A r \in 1..Len(reqs) :
                 (TranscriptPagePending(r) \/ MetadataPagePending(r))
                 => LET c == reqs[r].call
                    IN  /\ NetFail(r)
                           => /\ calls'[c].pc = "rejected"
                              /\ calls'[c].error =
                                     FacadePrefix(calls[c].kind) \o NetworkError
                        /\ TimeoutFire(r)
                           => /\ calls'[c].pc = "rejected"
                              /\ calls'[c].error =
                                     FacadePrefix(calls[c].kind)
                                         \o TimeoutError(reqs[r].timeoutMs)
                        /\ NetReturn(r, PageNoMarker) /\ calls[c].kind = "metadata"
                           => /\ calls'[c].pc = "rejected"
                              /\ calls'[c].error =
                                     MetadataPrefix \o <<"Failed to find player data">>
          /\ (CallStarts /\ calls'[NewCallNo].pc = "rejected")
             => calls'[NewCallNo].error =
                    FacadePrefix(calls'[NewCallNo].kind) \o <<"Invalid YouTube URL">>]_vars

\* Reached: a transcript call rejected by a timed-out page fetch and a
\* metadata call rejected by a failed one, each under its own prefix.
C28_Witness ==
    \E c1, c2 \in 1..Len(calls) :
        /\ calls[c1].kind = "transcript" /\ calls[c1].pc = "rejected"
        /\ calls[c1].error = TranscriptPrefix \o TimeoutError(DEFAULT_TIMEOUT_MS)
        /\ calls[c2].kind = "metadata" /\ calls[c2].pc = "rejected"
        /\ calls[c2].error = MetadataPrefix \o NetworkError

\* ------------------------------------------------- clearing the summaries
\* The summary service with its debounced save, clearCache and a restart:
\* calls one after the other, the clock moving while a save timer waits, the
\* store accepting every write and read.
ClearNext ==
    \/ Len(gens) < MaxBulkCalls /\ NoGenPending /\ SummaryCaller
    \/ SummaryCompletion
    \/ \E due \in summarySaveTimers : SummarySaveTimerFire(due, TRUE)
    \/ DebounceTick
    \/ NoGenPending /\ gens # <<>>
           /\ \E videoId \in VideoIds \cup {<<>>} : clearCache(videoId, TRUE)
    \/ gens # <<>> /\ NewVideoAnalysisService(TRUE)

ClearSpec == Init /\ [][ClearNext]_vars

\* The keys of a stored copy.
StoredKeys(store) ==
    IF store.present /\ store.parses THEN Entries(store.value) ELSE {}

\* C29: a clearCache that leaves the summary table empty (no argument, or the
\* video whose entries were the last ones) leaves none of the entries it
\* removed in the stored copy, and a load that follows brings none of them
\* back.
C29_ClearReachesStorage ==
    [][/\ \A videoId \in VideoIds \cup {<<>>} :
              (summaryCache # <<>> /\ clearCache(videoId, TRUE) /\ summaryCache' = <<>>)
              => StoredKeys(summaryStorage') \cap Entries(summaryCache) = {}
       /\ (summaryCache = <<>> /\ gens # <<>> /\ NewVideoAnalysisService(TRUE))
              => \A g \in 1..Len(gens) :
                     (gens[g].pc = "resolved" /\ ~gens[g].intact)
                     => CacheIndex(summaryCache', gens[g].key) = 0]_vars

\* ------------------------------------------------ repeated summary calls
\* What llmService.summarize may resolve with: a summary, or the empty text.
LlmAnswers == Summaries \cup {""}

\* generateMetadataSummary called again and again, one call after the other,
\* a millisecond or almost the whole expiry window apart; the LLM answers or
\* fails.
RepeatNext ==
    \/ Len(gens) < MaxCalls /\ NoGenPending /\ SummaryCaller
    \/ \E g \in 1..Len(gens) : \E summary \in LlmAnswers : SummarizeReturn(g, summary)
    \/ \E g \in 1..Len(gens) : SummarizeFail(g)
    \/ /\ ticks < MaxTicks
       /\ NoGenPending /\ gens # <<>>
       /\ \E delta \in {1, SUMMARY_CACHE_EXPIRY_MS - 1} : Tick(delta)

RepeatSpec == Init /\ [][RepeatNext]_vars

\* C30: a generateMetadataSummary call for a video whose summary an earlier
\* call generated less than 24 hours ago (the entry still standing) returns
\* that summary without invoking the LLM; a failing LLM call rejects the
\* generation with the LLM's error and writes no entry, and a call that finds
\* no entry invokes the LLM.
C30_SecondCallUsesCache ==
    [][/\ \A g1 \in 1..Len(gens) :
              (/\ GenStarts
               /\ gens'[NewGenNo].key = gens[g1].key
               /\ gens[g1].pc = "resolved"
               /\ gens[g1].intact
               /\ now < gens[g1].wroteAt + SUMMARY_CACHE_EXPIRY_MS)
              => /\ gens'[NewGenNo].pc = "resolved"
                 /\ gens'[NewGenNo].result = gens[g1].result
                 /\ gens'[NewGenNo].llmCalls = 0
       /\ \A g \in 1..Len(gens) :
              (gens[g].pc = "awaitLLM" /\ SummarizeFail(g))
              => /\ gens'[g].pc = "rejected"
                 /\ gens'[g].error = <<"LLM error">>
                 /\ summaryCache' = summaryCache
       /\ (GenStarts /\ CacheIndex(summaryCache, gens'[NewGenNo].key) = 0)
              => /\ gens'[NewGenNo].pc = "awaitLLM"
                 /\ gens'[NewGenNo].llmCalls = 1]_vars

\* ------------------------------------------------- timeout of a waiting request
\* The requests in the waiting list, and those dequeued so far.
Waiting == {requestQueue[i] : i \in 1..Len(requestQueue)}
Dequeued == {started[i] : i \in 1..Len(started)}

\* C31: a request in the waiting list has no timeout timer and is not settled;
\* the timer of a request is armed in the step that dequeues it and starts its
\* fetch, and a timeout only ever fires for a dequeued request.
C31_TimeoutStartsAtDequeue ==
    /\ [](\A r \in Waiting :
              /\ ~reqs[r].timer
              /\ reqs[r].net = "idle"
              /\ reqs[r].fwt = "none"
              /\ reqs[r].caller = "pending")
    /\ [][/\ \A r \in 1..Len(reqs') :
                 (reqs'[r].timer /\ (r > Len(reqs) \/ ~reqs[r].timer))
                 => /\ r \in {started'[i] : i \in 1..Len(started')} \ Dequeued
                    /\ reqs'[r].net = "running"
          /\ \A r \in 1..Len(reqs) :
                 (reqs[r].timer /\ TimeoutFire(r))
                 => r \in Dequeued /\ r \notin Waiting]_vars

\* Reached: a request that was enqueued while the drain loop slept at
\* capacity, waited in the list, was dequeued later and then rejected by its
\* own timeout, its underlying request still in flight.
C31_Witness ==
    \E r \in Dequeued :
        /\ reqs[r].queuedBehind
        /\ reqs[r].fwt = "rejected" /\ reqs[r].net = "running"
        /\ reqs[r].caller = "rejected"

\* ------------------------------------------------------ what a save writes
\* The saves of the two services over a table at its bound whose entries are
\* about to expire: a run exercises one service, with calls one after the
\* other, and the clock moves by a millisecond or by the debounce delay.
SnapshotNext ==
    \/ Len(calls) < MaxBulkCalls /\ NoCallPending /\ summaryCache = <<>> /\ gens = <<>>
           /\ ValidCaller
    \/ Completion
    \/ \E due \in saveTimers : SaveTimerFire(due, TRUE)
    \/ calls # <<>> /\ NoCallPending /\ VisibilityHidden(TRUE)
    \/ Len(gens) < MaxBulkCalls /\ NoGenPending /\ videoCache = <<>> /\ calls = <<>>
           /\ SummaryCaller
    \/ SummaryCompletion
    \/ \E due \in summarySaveTimers : SummarySaveTimerFire(due, TRUE)
    \/ gens # <<>> /\ NoGenPending /\ \E videoId \in VideoIds : clearCache(videoId, TRUE)
    \/ /\ ticks < MaxTicks
       /\ NoCallPending /\ NoGenPending
       /\ \E delta \in {1, SAVE_DEBOUNCE_MS} : Tick(delta)

SnapshotSpec == FullInit /\ [][SnapshotNext]_vars

\* The stored copy is written in this step.
StorageWritten == storage' # storage /\ storage'.present
SummaryStorageWritten == summaryStorage' # summaryStorage /\ summaryStorage'.present

\* C32: whatever a save writes to the store holds at most the table's bound
\* of entries (100 video entries, 50 summaries), none of them older than the
\* table's expiry window at the time of the write, also when the table held
\* more entries or expired ones just before.
C32_SnapshotIsClean ==
    [][/\ StorageWritten
          => /\ Len(storage'.value) <= MAX_CACHE_ENTRIES
             /\ \A i \in 1..Len(storage'.value) :
                    now' - storage'.value[i].timestamp <= CACHE_EXPIRY_MS
       /\ SummaryStorageWritten
          => /\ Len(summaryStorage'.value) <= SUMMARY_MAX_CACHE_ENTRIES
             /\ \A i \in 1..Len(summaryStorage'.value) :
                    now' - summaryStorage'.value[i].timestamp
                        <= SUMMARY_CACHE_EXPIRY_MS]_vars

\* Reached: a stored copy at the bound, written by a save that found the
\* table over its bound with expired entries in it: the new result is in the
\* copy and entries of the full table are not.
C32_Witness ==
    /\ storage.present
    /\ Len(storage.value) = MAX_CACHE_ENTRIES
    /\ \E c \in 1..Len(calls) :
           /\ calls[c].pc = "resolved"
           /\ CacheIndex(storage.value, calls[c].cacheKey) # 0
    /\ now = SUMMARY_CACHE_EXPIRY_MS + 1

\* ------------------------------------------------- purge and a pending save
\* The video-data service with its debounced save and purgeCache: calls one
\* after the other, the purge at any time (also while a call waits for its
\* fetch), the clock moving while a save timer waits; the store accepts every
\* write and removal.
PurgeNext ==
    \/ Len(calls) < MaxBulkCalls /\ NoCallPending /\ ValidCaller
    \/ Completion
    \/ \E due \in saveTimers : SaveTimerFire(due, TRUE)
    \/ DebounceTick
    \/ calls # <<>> /\ purgeCache(TRUE)

PurgeSpec == Init /\ [][PurgeNext]_vars

\* C33: purgeCache leaves the video-data table empty and no stored copy, and
\* touches no timer; from then on, as long as nothing is written to the table,
\* no step re-creates the stored copy: a debounced save that was pending at
\* the purge fires over the empty table and stores nothing.
C33_PurgeIsNotUndoneBySave ==
    [][/\ purgeCache(TRUE)
          => /\ videoCache' = <<>>
             /\ ~storage'.present
             /\ saveTimers' = saveTimers
       /\ (videoCache = <<>> /\ ~storage.present /\ videoCache' = <<>>)
          => ~storage'.present
       /\ \A due \in saveTimers :
              (videoCache = <<>> /\ ~storage.present /\ SaveTimerFire(due, TRUE))
              => /\ videoCache' = <<>>
                 /\ ~storage'.present
                 /\ saveTimers' = saveTimers \ {due}]_vars

\* Reached: the table and the stored copy are gone after a purge, and the save
\* timer armed by the write before the purge is due.
C33_Witness ==
    /\ videoCache = <<>>
    /\ ~storage.present
    /\ \E c \in 1..Len(calls) :
           calls[c].pc = "resolved" /\ ~calls[c].fromCache /\ ~calls[c].intact
    /\ \E due \in saveTimers : now >= due

\* ------------------------------------------- expiry at load and at cleanup
\* C34: a load restores a stored entry (one that has a timestamp) exactly when
\* a cleanup pass at the same instant would keep an entry of that age, for the
\* video-data table and for the summary table, the age equal to the expiry
\* window included.
C34_LoadAgreesWithCleanup ==
    [][/\ (storage.present /\ storage.parses /\ NewYouTubeService(TRUE))
          => \A i \in 1..Len(storage.value) :
                 LET entry == storage.value[i]
                 IN  entry.timestamp # 0
                     => ((\E j \in 1..Len(videoCache') : videoCache'[j] = entry)
                         <=> cleanCache(<<entry>>, now) = <<entry>>)
       /\ (summaryStorage.present /\ summaryStorage.parses /\ NewVideoAnalysisService(TRUE))
          => \A i \in 1..Len(summaryStorage.value) :
                 LET entry == summaryStorage.value[i]
                 IN  entry.timestamp # 0
                     => ((\E j \in 1..Len(summaryCache') : summaryCache'[j] = entry)
                         <=> summaryCleanCache(<<entry>>, now) = <<entry>>)]_vars

\* ------------------------------------------- generateMultimodalSummary
\* generateMetadataSummary as generateMultimodalSummary calls it, up to its
\* await or its end: the lookup under metadata_{videoId}, then the LLM call
\* the generation waits for at awaitPc.
EnterMetadataSummary(gen, cache, t, awaitPc) ==
    LET got == getCachedSummary(cache, SummaryKey(gen.videoId), t)
        gen1 == [gen EXCEPT !.key = SummaryKey(gen.videoId)]
    IN  [cache |-> got.cache,
         gen |-> IF got.summary # ""
                 THEN [gen1 EXCEPT !.pc = "resolved", !.result = got.summary,
                                   !.found = got.found, !.wroteAt = got.timestamp,
                                   !.intact = TRUE]
                 ELSE [gen1 EXCEPT !.pc = awaitPc, !.found = got.found,
                                   !.llmCalls = @ + 1]]

\* generateMultimodalSummary up to its await or its end. supported is what
\* the settings say when the call reads them: the provider is gemini, or it
\* is grok with a vision model.
MultimodalStart(videoId, supported, cache, t) ==
    LET gen0 == [NewGen(videoId) EXCEPT !.key = MultimodalKey(videoId),
                                        !.startedAt = t]
        got == getCachedSummary(cache, gen0.key, t)
    IN  IF got.summary # ""
        THEN [cache |-> got.cache,
              gen |-> [gen0 EXCEPT !.pc = "resolved", !.result = got.summary,
                                   !.found = got.found, !.wroteAt = got.timestamp,
                                   !.intact = TRUE]]
        ELSE IF supported
        THEN [cache |-> got.cache,
              gen |-> [gen0 EXCEPT !.pc = "awaitMultimodalLLM", !.found = got.found,
                                   !.llmCalls = 1]]
        ELSE EnterMetadataSummary(gen0, got.cache, t, "awaitInnerLLM")

generateMultimodalSummary(videoId, supported) ==
    LET start == MultimodalStart(videoId, supported, summaryCache, now)
    IN  /\ summaryCache' = start.cache
        /\ gens' = Append(gens, start.gen)
        /\ raised' = FALSE
        /\ UNCHANGED <<now, ticks, videoCache, storage, saveTimeout, saveTimers,
                       queueVars, calls, summaryStorage, summarySaveTimeout,
                       summarySaveTimers, pluginVars>>

\* The LLM call made inside the try block of generateMultimodalSummary
\* resolves: the multimodal call, or the one generateMetadataSummary made for
\* an unsupported provider. cacheSummary under the key of the call that
\* asked, then the summary is returned.
MultimodalReturn(g, summary) ==
    /\ gens[g].pc \in {"awaitMultimodalLLM", "awaitInnerLLM"}
    /\ summaryCache' = CachePut(summaryCache, gens[g].key, summary, now)
    /\ LET armed == debouncedSaveCache([handle |-> summarySaveTimeout,
                                        live |-> summarySaveTimers], now)
       IN  /\ summarySaveTimeout' = armed.handle
           /\ summarySaveTimers' = armed.live
    /\ gens' = SummaryOverwritten(
                   [gens EXCEPT ![g].pc = "resolved", ![g].result = summary,
                                ![g].wroteAt = now, ![g].intact = TRUE],
                   gens[g].key, g)
    /\ raised' = FALSE
    /\ UNCHANGED <<now, ticks, videoCache, storage, saveTimeout, saveTimers,
                   queueVars, calls, summaryStorage, pluginVars>>

\* A slip: the failed multimodal call leaves its fallback's key unused and
\* marks the video as analysed under multimodal_{videoId}.
MultimodalCatchCaches(gen, fallbackToMetadata, cache, t) ==
    IF fallbackToMetadata
    THEN LET fall == EnterMetadataSummary(gen, cache, t, "awaitLLM")
         IN  [fall EXCEPT !.cache = CachePut(fall.cache, MultimodalKey(gen.videoId),
                                             "", t)]
    ELSE [cache |-> cache,
          gen |-> [gen EXCEPT !.pc = "rejected", !.error = <<"LLM error">>]]

\* The catch block of generateMultimodalSummary: with fallbackToMetadata set
\* generateMetadataSummary is called, otherwise the error is thrown again.
MultimodalCatch(gen, fallbackToMetadata, cache, t) ==
    IF fallbackToMetadata
    THEN EnterMetadataSummary(gen, cache, t, "awaitLLM")
    ELSE [cache |-> cache,
          gen |-> [gen EXCEPT !.pc = "rejected", !.error = <<"LLM error">>]]

\* The LLM call made inside the try block rejects.
MultimodalFail(g, fallbackToMetadata) ==
    /\ gens[g].pc \in {"awaitMultimodalLLM", "awaitInnerLLM"}
    /\ LET caught == MultimodalCatch(gens[g], fallbackToMetadata, summaryCache, now)
       IN  /\ summaryCache' = caught.cache
           /\ gens' = [gens EXCEPT ![g] = caught.gen]
    /\ raised' = FALSE
    /\ UNCHANGED <<now, ticks, videoCache, storage, saveTimeout, saveTimers,
                   queueVars, calls, summaryStorage,
                   summarySaveTimeout, summarySaveTimers, pluginVars>>

\* ------------------------------------------------- the plugin's summaries
\* (src/src/main.tsx) The plugin keeps its own table of summaries by video
\* id, a Map, here the entries [key, data, timestamp] in insertion order.
MaxInvocations == 2
MaxAdds == 12

PLUGIN_MAX_CACHE_ENTRIES == 10
PLUGIN_CACHE_EXPIRY_MS == 1800000

\* The scan of addToSummaryCache: oldestTime starts at Date.now() and an
\* entry replaces the candidate only when it is strictly older, so the scan
\* ends on the first of the oldest entries written before t, 0 when no entry
\* was written before t.
OldestBefore(cache, t) ==
    LET Before == {i \in 1..Len(cache) : cache[i].timestamp < t}
    IN  IF Before = {} THEN 0
        ELSE CHOOSE i \in Before :
                 \A k \in Before :
                     \/ cache[i].timestamp < cache[k].timestamp
                     \/ cache[i].timestamp = cache[k].timestamp /\ i <= k

\* addToSummaryCache(videoId, summary): at the bound the entry the scan found
\* is deleted (if (oldestKey): not when its key is the empty text), then the
\* entry is set.
addToSummaryCache(cache, videoId, summary, t) ==
    LET oldest == OldestBefore(cache, t)
        kept == IF /\ Len(cache) >= PLUGIN_MAX_CACHE_ENTRIES
                   /\ oldest # 0
                   /\ cache[oldest].key # <<>>
                THEN SubSeq(cache, 1, oldest - 1) \o SubSeq(cache, oldest + 1, Len(cache))
                ELSE cache
    IN  CachePut(kept, videoId, summary, t)

\* The URLs the summarize command is given, as getVideoId reads them, and the
\* same texts as the facade's VIDEO_ID_REGEX reads them.
SummarizeUrlA == <<"https://", "www.youtube.com", "/", "watch", "?", "v", "=", "a", "1">>
SummarizeUrlB == <<"https://", "www.youtube.com", "/", "watch", "?", "v", "=", "b", "2">>
SummarizeUrlOther == <<"https://", "example.com", "/", "clip">>
SummarizeUrls == {SummarizeUrlA, SummarizeUrlB, SummarizeUrlOther}

UrlText(url) ==
    IF url = SummarizeUrlA THEN UrlWatchA
    ELSE IF url = SummarizeUrlB THEN UrlWatchB
    ELSE UrlOther

\* A summarizeVideo invocation: the position it waits at, the facade call or
\* the generation it awaits, the summary it read from the plugin's table, and
\* how it ended.
NewInvocation(url) ==
    [url |-> url, videoId |-> getVideoId(url), pc |-> "start", exit |-> "",
     call |-> 0, gen |-> 0, summary |-> ""]

\* A slip: the guard looks at the URL only.
RefusesInvalidOnly(videoId, processing) == videoId = <<>>

\* The processing guard: !videoId || this.processingVideos.has(videoId)
Refuses(videoId, processing) == videoId = <<>> \/ videoId \in processing

\* A slip: the finally block leaves the set alone.
FinallyKeepsId(processing, videoId) == processing

\* The finally block: the id leaves the set.
Finally(processing, videoId) ==
    IF videoId # <<>> THEN processing \ {videoId} ELSE processing

\* The lookup of the plugin's table: an entry younger than the window.
FreshSummaryAt(cache, videoId, t) ==
    LET i == CacheIndex(cache, videoId)
    IN  IF i # 0 /\ t - cache[i].timestamp < PLUGIN_CACHE_EXPIRY_MS THEN i ELSE 0

\* What no step of summarizeVideo touches.
playerVars == <<players, miniPlayerActive, activeMiniPlayerId>>

\* The invocation ends: return or catch, then the finally block.
Exit(n, how, text) ==
    /\ invocations' = [invocations EXCEPT ![n].pc = "done", ![n].exit = how]
    /\ processingVideos' = Finally(processingVideos, invocations[n].videoId)
    /\ isProcessing' = (Finally(processingVideos, invocations[n].videoId) # {})
    /\ notice' = text
    /\ raised' = FALSE
    /\ UNCHANGED <<now, ticks, videoCache, storage, saveTimeout, saveTimers,
                   queueVars, calls, summaryVars, playerVars, videoSummaryCache>>

\* The invocation goes on to its next await without a call to a service.
GoOn(n, pc, text, cache) ==
    /\ invocations' = [invocations EXCEPT ![n].pc = pc]
    /\ notice' = text
    /\ videoSummaryCache' = cache
    /\ raised' = FALSE
    /\ UNCHANGED <<now, ticks, videoCache, storage, saveTimeout, saveTimers,
                   queueVars, calls, summaryVars, playerVars, processingVideos,
                   isProcessing>>

\* The invocation calls the facade and awaits the call.
AwaitFacade(n, inv, kind, prefix, text) ==
    /\ BeginCall(NewCall(kind, UrlText(inv.url),
                         IF kind = "transcript" THEN LangEn ELSE <<>>), prefix)
    /\ invocations' = IF n > Len(invocations) THEN Append(invocations, inv)
                      ELSE [invocations EXCEPT ![n] = inv]
    /\ notice' = text
    /\ raised' = FALSE
    /\ UNCHANGED <<now, ticks, storage, saveTimeout, saveTimers, summaryVars,
                   playerVars, videoSummaryCache>>

\* The invocation calls the analysis service and awaits the generation.
AwaitAnalysis(n, pc, start, text) ==
    /\ summaryCache' = start.cache
    /\ gens' = Append(gens, start.gen)
    /\ invocations' = [invocations EXCEPT ![n].pc = pc,
                                          ![n].gen = Len(gens) + 1]
    /\ notice' = text
    /\ raised' = FALSE
    /\ UNCHANGED <<now, ticks, videoCache, storage, saveTimeout, saveTimers,
                   queueVars, calls, summaryStorage, summarySaveTimeout,
                   summarySaveTimers, playerVars, processingVideos, isProcessing,
                   videoSummaryCache>>

\* summarizeVideo(url, editor) from its start to its first await or its end.
\* keySet is what the settings say when the invocation reads them: the API
\* key of the selected provider is set.
summarizeVideo(url, keySet) ==
    LET inv0 == NewInvocation(url)
        n == Len(invocations) + 1
        i == FreshSummaryAt(videoSummaryCache, inv0.videoId, now)
    IN  IF Refuses(inv0.videoId, processingVideos)
        THEN /\ invocations' = Append(invocations,
                                      [inv0 EXCEPT !.pc = "done", !.exit = "refused"])
             /\ notice' = "Already processing this video, please wait..."
             /\ raised' = FALSE
             /\ UNCHANGED <<now, ticks, videoCache, storage, saveTimeout, saveTimers,
                            queueVars, calls, summaryVars, playerVars,
                            processingVideos, isProcessing, videoSummaryCache>>
        ELSE IF ~keySet
        THEN /\ invocations' = Append(invocations,
                                      [inv0 EXCEPT !.pc = "done", !.exit = "missingKey"])
             /\ processingVideos' =
                    Finally(processingVideos \cup {inv0.videoId}, inv0.videoId)
             /\ isProcessing' =
                    (Finally(processingVideos \cup {inv0.videoId}, inv0.videoId) # {})
             /\ notice' = "API key is missing. Please set it in the plugin settings."
             /\ raised' = FALSE
             /\ UNCHANGED <<now, ticks, videoCache, storage, saveTimeout, saveTimers,
                            queueVars, calls, summaryVars, playerVars,
                            videoSummaryCache>>
        ELSE /\ processingVideos' = processingVideos \cup {inv0.videoId}
             /\ isProcessing' = TRUE
             /\ IF i # 0
                THEN AwaitFacade(n, [inv0 EXCEPT !.pc = "awaitCachedMetadata",
                                                 !.call = Len(calls) + 1,
                                                 !.summary = videoSummaryCache[i].data],
                                 "metadata", MetadataPrefix, notice)
                ELSE AwaitFacade(n, [inv0 EXCEPT !.pc = "awaitTranscript",
                                                 !.call = Len(calls) + 1],
                                 "transcript", TranscriptPrefix,
                                 "Fetching video information...")

\* The facade call or the generation the invocation awaits has settled.
CallSettled(inv) == inv.call # 0 /\ calls[inv.call].pc \in {"resolved", "rejected"}
GenSettled(inv) == inv.gen # 0 /\ gens[inv.gen].pc \in {"resolved", "rejected"}

\* The summary-cache hit: fetchVideoMetadata settles, then the insert.
CachedMetadataSettles(n) ==
    /\ invocations[n].pc = "awaitCachedMetadata"
    /\ CallSettled(invocations[n])
    /\ IF calls[invocations[n].call].pc = "resolved"
       THEN GoOn(n, "awaitCachedInsert", notice, videoSummaryCache)
       ELSE Exit(n, "error", "Error")

\* fetchTranscript settles: with captions the LLM is asked, without them
\* handleVideosWithoutCaptions starts with its own look at the plugin's table
\* and a fetchVideoMetadata call.
TranscriptSettles(n) ==
    LET inv == invocations[n]
        i == FreshSummaryAt(videoSummaryCache, inv.videoId, now)
    IN  /\ inv.pc = "awaitTranscript"
        /\ CallSettled(inv)
        /\ IF calls[inv.call].pc = "rejected"
           THEN Exit(n, "error", "Error")
           ELSE IF Len(calls[inv.call].result.lines) > 0
           THEN GoOn(n, "awaitLLM", "Generating summary...", videoSummaryCache)
           ELSE /\ UNCHANGED <<processingVideos, isProcessing>>
                /\ IF inv.videoId # <<>> /\ i # 0
                   THEN AwaitFacade(n, [inv EXCEPT !.pc = "awaitNoCaptionsCached",
                                                   !.call = Len(calls) + 1,
                                                   !.summary = videoSummaryCache[i].data],
                                    "metadata", MetadataPrefix, notice)
                   ELSE AwaitFacade(n, [inv EXCEPT !.pc = "awaitNoCaptionsMetadata",
                                                   !.call = Len(calls) + 1],
                                    "metadata", MetadataPrefix,
                                    "No captions available, analyzing video...")

\* llmService.summarize, called with the transcript, settles.
LlmSettles(n, ok, summary) ==
    LET inv == invocations[n]
    IN  /\ inv.pc = "awaitLLM"
        /\ IF ok
           THEN GoOn(n, "awaitInsert", notice,
                     addToSummaryCache(videoSummaryCache,
                                       calls[inv.call].result.videoId, summary, now))
           ELSE Exit(n, "error", "Error")

\* handleVideosWithoutCaptions with a summary in the plugin's table:
\* fetchVideoMetadata settles. (The guard keeps every other writer of the
\* video's entry out while the invocation runs, so the table has a fresh
\* entry here only if summarizeVideo found it first.)
NoCaptionsCachedSettles(n) ==
    /\ invocations[n].pc = "awaitNoCaptionsCached"
    /\ CallSettled(invocations[n])
    /\ IF calls[invocations[n].call].pc = "resolved"
       THEN GoOn(n, "awaitInsert", notice, videoSummaryCache)
       ELSE Exit(n, "error", "Error")

\* handleVideosWithoutCaptions: fetchVideoMetadata settles and the analysis
\* the settings select is asked for. multimodal and supported are what the
\* settings say when they are read.
NoCaptionsMetadataSettles(n, multimodal, supported) ==
    LET inv == invocations[n]
        metadata == calls[inv.call].result
    IN  /\ inv.pc = "awaitNoCaptionsMetadata"
        /\ CallSettled(inv)
        /\ IF calls[inv.call].pc = "rejected"
           THEN Exit(n, "error", "Error")
           ELSE IF multimodal
           THEN AwaitAnalysis(n, "awaitMultimodal",
                    MultimodalStart(metadata.videoId, supported, summaryCache, now),
                    "Analyzing video using multimodal AI...")
           ELSE AwaitAnalysis(n, "awaitMetadataSummary",
                    EnterMetadataSummary([NewGen(metadata.videoId) EXCEPT !.startedAt = now],
                                         summaryCache, now, "awaitLLM"),
                    "Analyzing video using metadata...")

\* generateMultimodalSummary settles: its summary goes to the plugin's
\* table; its error is thrown on unless the settings ask for the fallback.
MultimodalSettles(n, fallbackToMetadata) ==
    LET inv == invocations[n]
    IN  /\ inv.pc = "awaitMultimodal"
        /\ GenSettled(inv)
        /\ IF gens[inv.gen].pc = "resolved"
           THEN GoOn(n, "awaitInsert", notice,
                     addToSummaryCache(videoSummaryCache, inv.videoId,
                                       gens[inv.gen].result, now))
           ELSE IF fallbackToMetadata
           THEN AwaitAnalysis(n, "awaitMetadataSummary",
                    EnterMetadataSummary([NewGen(gens[inv.gen].videoId)
                                              EXCEPT !.startedAt = now],
                                         summaryCache, now, "awaitLLM"),
                    "Multimodal analysis failed, falling back to metadata analysis...")
           ELSE Exit(n, "error", "Error")

\* generateMetadataSummary settles.
MetadataSummarySettles(n) ==
    LET inv == invocations[n]
    IN  /\ inv.pc = "awaitMetadataSummary"
        /\ GenSettled(inv)
        /\ IF gens[inv.gen].pc = "resolved"
           THEN GoOn(n, "awaitInsert", notice,
                     addToSummaryCache(videoSummaryCache, inv.videoId,
                                       gens[inv.gen].result, now))
           ELSE Exit(n, "error", "Error")

\* insertOrOrganizeSummary settles.
InsertSettles(n, ok) ==
    LET inv == invocations[n]
    IN  /\ inv.pc \in {"awaitCachedInsert", "awaitInsert"}
        /\ IF ~ok THEN Exit(n, "error", "Error")
           ELSE IF inv.pc = "awaitCachedInsert"
           THEN Exit(n, "cacheHit", "Summary loaded from cache!")
           ELSE Exit(n, "success", notice)

\* The plugin's commands and timers at work: summaries are asked for at any
\* time, the network and the LLM answer or fail.
Resumes(n) ==
    \/ CachedMetadataSettles(n)
    \/ TranscriptSettles(n)
    \/ \E ok \in BOOLEAN, summary \in Summaries : LlmSettles(n, ok, summary)
    \/ NoCaptionsCachedSettles(n)
    \/ \E multimodal \in BOOLEAN, supported \in BOOLEAN :
           NoCaptionsMetadataSettles(n, multimodal, supported)
    \/ \E fallbackToMetadata \in BOOLEAN : MultimodalSettles(n, fallbackToMetadata)
    \/ MetadataSummarySettles(n)
    \/ \E ok \in BOOLEAN : InsertSettles(n, ok)

AnalysisCompletion ==
    \/ SummaryCompletion
    \/ \E g \in 1..Len(gens) : \E summary \in Summaries : MultimodalReturn(g, summary)
    \/ \E g \in 1..Len(gens) : \E fallbackToMetadata \in BOOLEAN :
           MultimodalFail(g, fallbackToMetadata)

\* What the network hands back while summaries are made: the page of the
\* first video with or without caption tracks, its captions; the second
\* video is out of reach and its fetches fail.
SummarizeAnswers(url) ==
    IF url = <<UrlWatchA>> THEN {PageFull, PageNoTracks}
    ELSE IF url = <<UrlWatchB>> THEN {}
    ELSE Xmls

SummarizeNext ==
    \/ /\ Len(invocations) < MaxInvocations
       /\ \E url \in SummarizeUrls, keySet \in BOOLEAN : summarizeVideo(url, keySet)
    \/ \E r \in 1..Len(reqs) :
           \E body \in SummarizeAnswers(reqs[r].url) : NetReturn(r, body)
    \/ \E r \in 1..Len(reqs) : NetFail(r)
    \/ AnalysisCompletion
    \/ \E n \in 1..Len(invocations) : Resumes(n)

SummarizeSpec == Init /\ [][SummarizeNext]_vars

\* The invocations past the processing guard that have not ended.
PastGuard == {n \in 1..Len(invocations) : invocations[n].pc # "done"}

\* C35: at any time no two summarizeVideo invocations past the processing
\* guard are for the same video id, and the id of each of them is in
\* processingVideos; an invocation for a video id that is in processingVideos
\* ends at once as refused: it makes no facade call (no transcript or
\* metadata fetch is queued), starts no generation and no LLM call, and
\* leaves the set, the flag and every table as they were.
C35_OneInvocationPerVideo ==
    /\ [](\A m \in PastGuard, n \in PastGuard :
              invocations[m].videoId = invocations[n].videoId => m = n)
    /\ [](\A n \in PastGuard : invocations[n].videoId \in processingVideos)
    /\ [][\A url \in SummarizeUrls, keySet \in BOOLEAN :
              (/\ getVideoId(url) \in processingVideos
               /\ Len(invocations') = Len(invocations) + 1
               /\ summarizeVideo(url, keySet))
              => /\ invocations'[Len(invocations')].pc = "done"
                 /\ invocations'[Len(invocations')].exit = "refused"
                 /\ \A n \in 1..Len(invocations) : invocations'[n] = invocations[n]
                 /\ UNCHANGED <<calls, queueVars, gens, videoCache, summaryCache,
                                videoSummaryCache, processingVideos, isProcessing>>]_vars

\* An invocation is refused while an earlier one for the same video awaits
\* its transcript, the LLM or the insert.
C35_Witness ==
    \E m \in PastGuard, n \in 1..Len(invocations) :
        /\ m < n
        /\ invocations[m].pc \in {"awaitTranscript", "awaitLLM", "awaitInsert"}
        /\ invocations[n].exit = "refused"
        /\ invocations[n].videoId = invocations[m].videoId
        /\ invocations[n].videoId # <<>>

\* What an invocation awaits comes: a started fetch ends, the LLM and the
\* insert settle, and a settled promise resumes the invocation that awaits it.
SummarizeFairness ==
    /\ \A r \in 1..(3 * MaxInvocations) :
           WF_vars(/\ r \in 1..Len(reqs)
                   /\ \/ \E body \in SummarizeAnswers(reqs[r].url) : NetReturn(r, body)
                      \/ NetFail(r))
    /\ WF_vars(AnalysisCompletion)
    /\ \A n \in 1..MaxInvocations :
           WF_vars(n \in 1..Len(invocations) /\ Resumes(n))

SummarizeFairSpec == SummarizeSpec /\ SummarizeFairness

\* The invocations that passed the guard and have ended.
Ended(seq) == {n \in 1..Len(seq) : seq[n].pc = "done" /\ seq[n].exit # "refused"}

\* C36: every summarizeVideo invocation that passed the processing guard
\* ends (as a success, for a missing API key, on a summary-cache hit or on a
\* thrown error); in the step in which it ends its video id leaves
\* processingVideos and isProcessing is set to whether the set is non-empty;
\* no step that ends no invocation takes an id out of the set.
C36_GuardIsReleased ==
    /\ \A n \in 1..MaxInvocations : (n \in PastGuard) ~> (n \in Ended(invocations))
    /\ [][\A n \in Ended(invocations') \ Ended(invocations) :
              /\ invocations'[n].exit \in {"success", "missingKey", "cacheHit", "error"}
              /\ ~(invocations'[n].videoId \in processingVideos')
              /\ isProcessing' = (processingVideos' # {})]_vars
    /\ [][Ended(invocations') = Ended(invocations)
              => processingVideos \subseteq processingVideos']_vars

\* An invocation has ended on an error and its id is out of the set while
\* another video is still being processed, and the flag is still up.
C36_Witness ==
    \E m \in Ended(invocations), n \in PastGuard :
        /\ invocations[m].exit = "error"
        /\ ~(invocations[m].videoId \in processingVideos)
        /\ invocations[n].videoId \in processingVideos
        /\ isProcessing

\* ------------------------------------------------ the plugin's table fills
\* The video ids the table is filled with.
FillIds == <<"v01", "v02", "v03", "v04", "v05", "v06", "v07", "v08", "v09", "v10",
             "v11", "v12">>

\* addToSummaryCache called on its own, as the end of a summary does.
addToSummaryCacheCall(videoId, summary) ==
    /\ videoSummaryCache' = addToSummaryCache(videoSummaryCache, videoId, summary, now)
    /\ raised' = FALSE
    /\ UNCHANGED <<now, ticks, videoCache, storage, saveTimeout, saveTimers,
                   queueVars, calls, summaryVars, playerVars, notice,
                   processingVideos, isProcessing, invocations>>

\* The first id of FillIds the table does not hold, 0 when it holds them all.
FirstAbsent(cache) ==
    LET Absent == {k \in 1..Len(FillIds) : CacheIndex(cache, <<FillIds[k]>>) = 0}
    IN  IF Absent = {} THEN 0 ELSE CHOOSE k \in Absent : \A j \in Absent : k <= j

\* Summaries are added one after the other, for a video the table does not
\* hold or for the one it holds first, in the same millisecond or a later one.
FillNext ==
    \/ /\ Len(videoSummaryCache) < MaxAdds
       /\ FirstAbsent(videoSummaryCache) # 0
       /\ addToSummaryCacheCall(<<FillIds[FirstAbsent(videoSummaryCache)]>>,
                                "summary one")
    \/ /\ videoSummaryCache # <<>>
       /\ addToSummaryCacheCall(videoSummaryCache[1].key, "summary one")
    \/ ticks < MaxTicks /\ Tick(1)

FillSpec == Init /\ [][FillNext]_vars

\* C37: the plugin's videoSummaryCache never holds more than
\* MAX_CACHE_ENTRIES (10) entries, whatever addToSummaryCache calls were made
\* and whenever.
C37_AtMostTenEntries ==
    Len(videoSummaryCache) <= PLUGIN_MAX_CACHE_ENTRIES

\* ------------------------------------------------- multimodal summaries
\* Multimodal and metadata summaries are asked for at any time, under
\* settings that support the multimodal call or do not; the LLM answers or
\* fails.
MultimodalNext ==
    \/ /\ Len(gens) < MaxCalls
       /\ \E videoId \in VideoIds, supported \in BOOLEAN :
              generateMultimodalSummary(videoId, supported)
    \/ Len(gens) < MaxCalls /\ SummaryCaller
    \/ AnalysisCompletion

MultimodalSpec == Init /\ [][MultimodalNext]_vars

\* The entry of the table under key, <<>> when there is none.
EntryUnder(cache, key) ==
    IF CacheIndex(cache, key) = 0 THEN <<>> ELSE <<cache[CacheIndex(cache, key)]>>

\* C38: an entry under multimodal_{videoId} appears or changes only in the
\* step in which a multimodal LLM call for that video resolves; a generation
\* that fell back to the metadata-based summary (unsupported provider or
\* model, or a failed LLM call with fallbackToMetadata set) stores its result
\* under metadata_{videoId} and leaves the multimodal entry alone; when the
\* LLM call fails with fallbackToMetadata not set the generation rejects
\* with the error and the table, the stored copy and the save timer are left
\* as they were.
C38_MultimodalKeyOnlyOnSuccess ==
    /\ [][\A videoId \in VideoIds :
              (/\ EntryUnder(summaryCache', MultimodalKey(videoId)) # <<>>
               /\ EntryUnder(summaryCache', MultimodalKey(videoId))
                      # EntryUnder(summaryCache, MultimodalKey(videoId)))
              => \E g \in 1..Len(gens), summary \in Summaries :
                     /\ gens[g].pc = "awaitMultimodalLLM"
                     /\ gens[g].videoId = videoId
                     /\ MultimodalReturn(g, summary)]_vars
    /\ [][\A g \in 1..Len(gens) :
              (/\ gens[g].pc \in {"awaitInnerLLM", "awaitLLM"}
               /\ gens'[g].pc = "resolved")
              => /\ EntryUnder(summaryCache', SummaryKey(gens[g].videoId))
                        = <<[key |-> SummaryKey(gens[g].videoId),
                             data |-> gens'[g].result, timestamp |-> now]>>
                 /\ EntryUnder(summaryCache', MultimodalKey(gens[g].videoId))
                        = EntryUnder(summaryCache, MultimodalKey(gens[g].videoId))]_vars
    /\ [][\A g \in 1..Len(gens) :
              (/\ gens[g].pc \in {"awaitMultimodalLLM", "awaitInnerLLM"}
               /\ MultimodalFail(g, FALSE))
              => /\ gens'[g].pc = "rejected"
                 /\ gens'[g].error # <<>>
                 /\ UNCHANGED <<summaryCache, summaryStorage, summarySaveTimeout,
                                summarySaveTimers>>]_vars

\* A generation whose first LLM call failed has resolved through the
\* fallback: its summary stands under metadata_{videoId} and the table has
\* nothing under multimodal_{videoId}.
C38_Witness ==
    \E g \in 1..Len(gens) :
        /\ gens[g].pc = "resolved"
        /\ gens[g].llmCalls = 2
        /\ gens[g].key = SummaryKey(gens[g].videoId)
        /\ EntryUnder(summaryCache, SummaryKey(gens[g].videoId)) # <<>>
        /\ EntryUnder(summaryCache, MultimodalKey(gens[g].videoId)) = <<>>

====
